---- MODULE Spec2Model ----
(***************************************************************************)
(* A model of the retrieval and learner-progress engine of the MATLAB AI   *)
(* tutor backend: the mastery curve (utils/topicExtraction.js), the topic  *)
(* classifier, the PDF chunker and the relevance scorer                    *)
(* (utils/pdfEmbeddings.js), and the upload route that stores fragments.   *)
(*                                                                         *)
(* Text is modelled character by character: a string is a sequence of      *)
(* one-character strings.  Fractional scores are kept as scaled integers.  *)
(***************************************************************************)
EXTENDS Integers, Sequences, FiniteSets, TLC

VARIABLES
    calcIn,     \* arguments of one call of calculateMasteryLevel, and its clock
    calcOut,    \* the value that call returned (set = FALSE before the call)
    record,     \* the student_mastery row of one (student, course, concept)
    reqs,       \* the chat requests updating that row: position and what each read
    now,        \* the tracker's clock, in ticks
    topicIn,    \* the argument of one call of extractTopic
    topicOut,   \* what that call returned (called = FALSE before the call)
    pdfs,       \* the rows of table pdfs, with the document each one stores
    pdf_chunks, \* the rows of table pdf_chunks, in insertion order
    response,   \* the answer to the last request of the PDF routes
    nextPdfId,  \* the id the next row of table pdfs is given
    searchIn,   \* the arguments of one call of searchRelevantChunks
    searchOut,  \* what that call returned (called = FALSE before the call)
    rankIn,     \* scored fragments and a K handed to the ranking tail of the search
    rankOut,    \* what the ranking tail returned (called = FALSE before the call)
    conversations,    \* the rows of table conversations, in insertion order
    analytics_events, \* the rows of table analytics_events, in insertion order
    chatIn,     \* the last POST /api/chat/message and what befell its collaborators
    chatOut,    \* the answer to that request
    chunkIn,    \* the arguments of one call of extractAndChunkPDF
    chunkOut,   \* what that call did (called = FALSE before the call)
    kwIn,       \* the question whose keywords one call of the search derives
    kwOut,      \* the primary and the expanded keywords it derived
    pagesIn,    \* a pages array handed to the chunking loop
    pagesOut,   \* the fragments the loop pushed (called = FALSE before)
    statsOut,   \* the answer to the last GET of the topic distribution
    inflight    \* an upload and a delete in progress: where each one stands

calcVars == <<calcIn, calcOut>>
trackerVars == <<record, reqs, now>>
topicVars == <<topicIn, topicOut>>
ingestVars == <<pdfs, pdf_chunks, response, nextPdfId>>
searchVars == <<searchIn, searchOut>>
rankVars == <<rankIn, rankOut>>
chatVars == <<conversations, analytics_events, chatIn, chatOut>>
chunkVars == <<chunkIn, chunkOut>>
keywordVars == <<kwIn, kwOut>>
pageVars == <<pagesIn, pagesOut>>
restVars == <<keywordVars, pageVars, statsOut, inflight>>
vars == <<calcVars, trackerVars, topicVars, ingestVars, searchVars, rankVars, chatVars,
          chunkVars, restVars>>

(***************************************************************************)
(* Small arithmetic helpers.                                               *)
(***************************************************************************)
Min(a, b) == IF a < b THEN a ELSE b
Max(a, b) == IF a > b THEN a ELSE b

(***************************************************************************)
(* MASTERY CURVE: calculateMasteryLevel (topicExtraction.js 75-110).       *)
(* Time is counted in ticks, TicksPerDay to a day, so that the floor of    *)
(* the day difference is a real floor.  A last_practiced value is a record *)
(* [set, at]: set = FALSE is the absent (null / undefined) value.          *)
(* Mastery inside the function is carried in hundredths so that the        *)
(* products by 0.95 and (1 - decayFactor) are exact.                       *)
(***************************************************************************)
TicksPerDay == 2
MaxQuestions == 20
MaxIdleDays == 31
MaxFutureDays == 2

NoDate == [set |-> FALSE, at |-> 0]
Date(t) == [set |-> TRUE, at |-> t]

\* line 81-83: lastPracticed ? Math.floor((now - lastPracticed) / msPerDay) : 0
daysSinceLastPractice(lastPracticed, nowTick) ==
    IF lastPracticed.set THEN (nowTick - lastPracticed.at) \div TicksPerDay ELSE 0

\* a slip in the first threshold of the curve
RawGrowthLateSwitch(questionsAsked) ==
    IF questionsAsked <= 6 THEN Min(40, questionsAsked * 8)
    ELSE IF questionsAsked <= 10 THEN 40 + ((questionsAsked - 5) * 8)
    ELSE Min(95, 80 + ((questionsAsked - 10) * 2))

\* lines 88-97: the learning curve (newMastery before the decay), in points
RawGrowth(questionsAsked) ==
    IF questionsAsked <= 5 THEN Min(40, questionsAsked * 8)
    ELSE IF questionsAsked <= 10 THEN 40 + ((questionsAsked - 5) * 8)
    ELSE Min(95, 80 + ((questionsAsked - 10) * 2))

\* a slip that would subtract percentage points and forget Math.max(0, ...)
DecaySubtractive(newMastery, days) ==
    IF days > 14 THEN 100 * (newMastery - Min(30, (days - 14) * 2))
    ELSE IF days > 7 THEN 100 * (newMastery - 5)
    ELSE 100 * newMastery

\* a slip that would skip the decay altogether
DecayNone(newMastery, days) == 100 * newMastery

\* lines 100-107: the decay of the value computed above.  The result is in
\* hundredths of a point: decayFactor is (days - 14) * 0.02 capped at 0.3, so
\* newMastery * (1 - decayFactor) is newMastery * (100 - percent) hundredths.
Decay(newMastery, days) ==
    IF days > 14
      THEN Max(0, newMastery * (100 - Min(30, (days - 14) * 2)))
      ELSE IF days > 7 THEN Max(0, newMastery * 95)
      ELSE 100 * newMastery

\* line 109: Math.round(Math.min(100, newMastery)) of a value in hundredths;
\* Math.round is floor(x + 0.5)
RoundClamp(hundredths) == (Min(100 * 100, hundredths) + 50) \div 100

\* a function whose last branch would be missing, so that past ten questions
\* the value handed in as currentMastery (line 85) is what gets decayed
calculateMasteryLevelKeepsCurrent(questionsAsked, lastPracticed, currentMastery, nowTick) ==
    RoundClamp(Decay(IF questionsAsked <= 10 THEN RawGrowth(questionsAsked)
                     ELSE currentMastery,
                     daysSinceLastPractice(lastPracticed, nowTick)))

\* lines 75-110; currentMastery is overwritten (line 88-97) before it is read
calculateMasteryLevel(questionsAsked, lastPracticed, currentMastery, nowTick) ==
    RoundClamp(Decay(RawGrowth(questionsAsked),
                     daysSinceLastPractice(lastPracticed, nowTick)))

(***************************************************************************)
(* One call of calculateMasteryLevel on arguments drawn from bounded sets. *)
(***************************************************************************)
CalcNow == (MaxIdleDays + 1) * TicksPerDay

CurrentMasteryValues == {0, 48, 100}

LastPracticedValues ==
    {NoDate} \cup {Date(t) : t \in 0 .. (CalcNow + MaxFutureDays * TicksPerDay)}

CalcInputs ==
    [questionsAsked : 0 .. MaxQuestions,
     lastPracticed  : LastPracticedValues,
     currentMastery : CurrentMasteryValues,
     nowTick        : {CalcNow}]

NoResult == [set |-> FALSE, v |-> 0]

CalcIdle == calcIn = [questionsAsked |-> 0, lastPracticed |-> NoDate,
                      currentMastery |-> 0, nowTick |-> 0]
            /\ calcOut = NoResult

Calc ==
    /\ ~calcOut.set
    /\ calcOut' = [set |-> TRUE,
                   v   |-> calculateMasteryLevel(calcIn.questionsAsked,
                                                 calcIn.lastPracticed,
                                                 calcIn.currentMastery,
                                                 calcIn.nowTick)]
    /\ UNCHANGED calcIn

(***************************************************************************)
(* MASTERY TRACKER: the update of a student_mastery row on a question.     *)
(* The chat route that performs it is not among the sources; the steps     *)
(* below follow the design text: read the row of the key, recompute with   *)
(* calculateMasteryLevel from the incremented counter and the stored       *)
(* last_practiced, write mastery_level, questions_asked and last_practiced *)
(* back.  No lock, version check or transaction surrounds the two steps.   *)
(***************************************************************************)
NumRequests == 3
MaxClock == 3

Requests == 1 .. NumRequests

NoRecord == [exists |-> FALSE, mastery_level |-> 0, questions_asked |-> 0,
             last_practiced |-> NoDate]

TrackerIdle == record = NoRecord /\ reqs = <<>> /\ now = 0

\* read step of the update: SELECT the row of (student, course, concept)
ReadMastery(r) ==
    /\ reqs[r].pc = "start"
    /\ reqs' = [reqs EXCEPT ![r] = [pc |-> "read", seen |-> record]]
    /\ UNCHANGED <<record, now>>

\* write step of the update: UPSERT the recomputed row
WriteMastery(r) ==
    /\ reqs[r].pc = "read"
    /\ LET asked == reqs[r].seen.questions_asked + 1
       IN record' = [exists          |-> TRUE,
                     mastery_level   |-> calculateMasteryLevel(
                                             asked, reqs[r].seen.last_practiced,
                                             reqs[r].seen.mastery_level, now),
                     questions_asked |-> asked,
                     last_practiced  |-> Date(now)]
    /\ reqs' = [reqs EXCEPT ![r].pc = "done"]
    /\ UNCHANGED now

\* time passes between the steps of the requests
Tick ==
    /\ now < MaxClock
    /\ now' = now + 1
    /\ UNCHANGED <<record, reqs>>

Processed == {r \in Requests : reqs[r].pc = "done"}

(***************************************************************************)
(* TEXT.  A string is a sequence of one-character strings.  The helpers    *)
(* below are the pieces of JavaScript's String and RegExp the sources use. *)
(***************************************************************************)
LowerLetters == <<"a", "b", "c", "d", "e", "f", "g", "h", "i", "j", "k", "l", "m",
                  "n", "o", "p", "q", "r", "s", "t", "u", "v", "w", "x", "y", "z">>
UpperLetters == <<"A", "B", "C", "D", "E", "F", "G", "H", "I", "J", "K", "L", "M",
                  "N", "O", "P", "Q", "R", "S", "T", "U", "V", "W", "X", "Y", "Z">>
DigitChars == {"0", "1", "2", "3", "4", "5", "6", "7", "8", "9"}
Range(seq) == {seq[i] : i \in 1 .. Len(seq)}

LowerSet == Range(LowerLetters)
UpperSet == Range(UpperLetters)
WordChars == LowerSet \cup UpperSet \cup DigitChars \cup {"_"}
SpaceChars == {" ", "\n", "\t"}
LowerOf == [c \in UpperSet |-> LowerLetters[CHOOSE i \in 1 .. 26 : UpperLetters[i] = c]]

\* the class \w of a RegExp
IsWordChar(c) == c \in WordChars
\* the class \s of a RegExp, for the characters of the model's texts
IsSpace(c) == c \in SpaceChars
IsUpper(c) == c \in UpperSet

ToLowerChar(c) == IF c \in UpperSet THEN LowerOf[c] ELSE c

\* String.prototype.toLowerCase
toLowerCase(s) == [i \in 1 .. Len(s) |-> ToLowerChar(s[i])]

\* is there a word character at position i of s (none outside the string)
WordAt(s, i) == i >= 1 /\ i <= Len(s) /\ IsWordChar(s[i])
\* the assertion \b between positions i - 1 and i
BoundaryAt(s, i) == WordAt(s, i - 1) # WordAt(s, i)
\* the literal lit matches s from position i on, ignoring case (flag i)
LitAt(s, i, lit) ==
    /\ i >= 1
    /\ i + Len(lit) - 1 <= Len(s)
    /\ \A j \in 1 .. Len(lit) : ToLowerChar(s[i + j - 1]) = ToLowerChar(lit[j])
\* new RegExp(`\\b${lit}\\b`, 'i') matches s at position i
WordMatchAt(s, i, lit) ==
    LitAt(s, i, lit) /\ BoundaryAt(s, i) /\ BoundaryAt(s, i + Len(lit))

\* s.match(new RegExp(`\\b${lit}\\b`, 'gi')): the matches are found left to
\* right and do not overlap; MatchCount(s, 1, lit) is their number (0 for null)
RECURSIVE MatchCount(_, _, _)
MatchCount(s, i, lit) ==
    IF i > Len(s) THEN 0
    ELSE IF WordMatchAt(s, i, lit) THEN 1 + MatchCount(s, i + Len(lit), lit)
    ELSE MatchCount(s, i + 1, lit)

\* a sort that forgets the direction of the comparator
InsertByScoreAscending(sorted, x) ==
    LET k == Cardinality({i \in 1 .. Len(sorted) : sorted[i].score <= x.score})
    IN SubSeq(sorted, 1, k) \o <<x>> \o SubSeq(sorted, k + 1, Len(sorted))

\* a sort that puts a later element before the earlier ones of equal score
InsertByScoreUnstable(sorted, x) ==
    LET k == Cardinality({i \in 1 .. Len(sorted) : sorted[i].score > x.score})
    IN SubSeq(sorted, 1, k) \o <<x>> \o SubSeq(sorted, k + 1, Len(sorted))

\* Array.prototype.sort((a, b) => b.score - a.score): descending by score and
\* stable, so an element goes after every earlier element that scores as much
InsertByScore(sorted, x) ==
    LET k == Cardinality({i \in 1 .. Len(sorted) : sorted[i].score >= x.score})
    IN SubSeq(sorted, 1, k) \o <<x>> \o SubSeq(sorted, k + 1, Len(sorted))

RECURSIVE SortByScore(_)
SortByScore(seq) ==
    IF seq = <<>> THEN <<>>
    ELSE InsertByScore(SortByScore(SubSeq(seq, 1, Len(seq) - 1)), seq[Len(seq)])

RECURSIVE SumSeq(_)
SumSeq(seq) == IF seq = <<>> THEN 0 ELSE seq[1] + SumSeq(Tail(seq))

\* Array.prototype.filter
RECURSIVE SelectSeqIdx(_, _)
SelectSeqIdx(seq, keep) ==
    IF seq = <<>> THEN <<>>
    ELSE SelectSeqIdx(SubSeq(seq, 1, Len(seq) - 1), keep)
         \o (IF Len(seq) \in keep THEN <<seq[Len(seq)]>> ELSE <<>>)

\* the words of ws joined by single blanks
RECURSIVE JoinWords(_)
JoinWords(ws) ==
    IF ws = <<>> THEN <<>>
    ELSE IF Len(ws) = 1 THEN ws[1]
    ELSE ws[1] \o <<" ">> \o JoinWords(Tail(ws))

\* every text of at most n words of the vocabulary vocab
TextsUpTo(vocab, n) ==
    UNION {{JoinWords([i \in 1 .. k |-> vocab[pick[i]]]) :
                pick \in [1 .. k -> 1 .. Len(vocab)]} : k \in 0 .. n}

(***************************************************************************)
(* TOPIC CLASSIFIER: extractTopic (topicExtraction.js 7-66).               *)
(* An argument is [kind, s]: kind is the JavaScript type of the value, s   *)
(* its characters when it is a string.  A result is [isNull, topic].       *)
(***************************************************************************)
topicKeywords == <<
    [topic |-> "basics", keywords |-> <<
        <<"v", "a", "r", "i", "a", "b", "l", "e">>,
        <<"a", "s", "s", "i", "g", "n", "m", "e", "n", "t">>,
        <<"w", "o", "r", "k", "s", "p", "a", "c", "e">>,
        <<"c", "o", "m", "m", "a", "n", "d">>, <<"b", "a", "s", "i", "c">>,
        <<"s", "t", "a", "r", "t">>,
        <<"i", "n", "t", "r", "o", "d", "u", "c", "t", "i", "o", "n">>>>],
    [topic |-> "arrays_matrices", keywords |-> <<
        <<"a", "r", "r", "a", "y">>, <<"m", "a", "t", "r", "i", "x">>,
        <<"m", "a", "t", "r", "i", "c", "e", "s">>, <<"v", "e", "c", "t", "o", "r">>,
        <<"d", "i", "m", "e", "n", "s", "i", "o", "n">>, <<"s", "i", "z", "e">>,
        <<"r", "e", "s", "h", "a", "p", "e">>,
        <<"t", "r", "a", "n", "s", "p", "o", "s", "e">>>>],
    [topic |-> "loops", keywords |-> <<
        <<"f", "o", "r">>, <<"w", "h", "i", "l", "e">>, <<"l", "o", "o", "p">>,
        <<"i", "t", "e", "r", "a", "t", "i", "o", "n">>,
        <<"i", "t", "e", "r", "a", "t", "e">>, <<"r", "e", "p", "e", "a", "t">>,
        <<"n", "e", "s", "t", "e", "d", " ", "l", "o", "o", "p">>>>],
    [topic |-> "conditionals", keywords |-> <<
        <<"i", "f">>, <<"e", "l", "s", "e">>, <<"e", "l", "s", "e", "i", "f">>,
        <<"s", "w", "i", "t", "c", "h">>, <<"c", "a", "s", "e">>,
        <<"c", "o", "n", "d", "i", "t", "i", "o", "n">>,
        <<"c", "o", "m", "p", "a", "r", "i", "s", "o", "n">>>>],
    [topic |-> "functions", keywords |-> <<
        <<"f", "u", "n", "c", "t", "i", "o", "n">>, <<"r", "e", "t", "u", "r", "n">>,
        <<"i", "n", "p", "u", "t">>, <<"o", "u", "t", "p", "u", "t">>,
        <<"p", "a", "r", "a", "m", "e", "t", "e", "r">>,
        <<"a", "r", "g", "u", "m", "e", "n", "t">>, <<"c", "a", "l", "l">>>>],
    [topic |-> "plotting", keywords |-> <<
        <<"p", "l", "o", "t">>, <<"g", "r", "a", "p", "h">>,
        <<"f", "i", "g", "u", "r", "e">>,
        <<"v", "i", "s", "u", "a", "l", "i", "z", "a", "t", "i", "o", "n">>,
        <<"c", "h", "a", "r", "t">>, <<"s", "u", "b", "p", "l", "o", "t">>,
        <<"a", "x", "i", "s">>, <<"x", "l", "a", "b", "e", "l">>,
        <<"y", "l", "a", "b", "e", "l">>>>],
    [topic |-> "file_io", keywords |-> <<
        <<"f", "o", "p", "e", "n">>, <<"f", "c", "l", "o", "s", "e">>,
        <<"f", "r", "e", "a", "d">>, <<"f", "w", "r", "i", "t", "e">>,
        <<"f", "p", "r", "i", "n", "t", "f">>, <<"f", "s", "c", "a", "n", "f">>,
        <<"l", "o", "a", "d">>, <<"s", "a", "v", "e">>, <<"f", "i", "l", "e">>>>],
    [topic |-> "operators", keywords |-> <<
        <<"o", "p", "e", "r", "a", "t", "o", "r">>,
        <<"a", "r", "i", "t", "h", "m", "e", "t", "i", "c">>,
        <<"a", "d", "d", "i", "t", "i", "o", "n">>,
        <<"s", "u", "b", "t", "r", "a", "c", "t", "i", "o", "n">>,
        <<"m", "u", "l", "t", "i", "p", "l", "i", "c", "a", "t", "i", "o", "n">>,
        <<"d", "i", "v", "i", "s", "i", "o", "n">>>>],
    [topic |-> "strings", keywords |-> <<
        <<"s", "t", "r", "i", "n", "g">>, <<"c", "h", "a", "r">>, <<"t", "e", "x", "t">>,
        <<"c", "o", "n", "c", "a", "t", "e", "n", "a", "t", "i", "o", "n">>,
        <<"s", "t", "r", "c", "m", "p">>, <<"s", "t", "r", "c", "a", "t">>>>],
    [topic |-> "cell_arrays", keywords |-> <<
        <<"c", "e", "l", "l">>, <<"c", "e", "l", "l", " ", "a", "r", "r", "a", "y">>,
        <<"c", "e", "l", "l", "s", "t", "r">>>>],
    [topic |-> "structures", keywords |-> <<
        <<"s", "t", "r", "u", "c", "t">>,
        <<"s", "t", "r", "u", "c", "t", "u", "r", "e">>, <<"f", "i", "e", "l", "d">>>>],
    [topic |-> "debugging", keywords |-> <<
        <<"e", "r", "r", "o", "r">>, <<"d", "e", "b", "u", "g">>,
        <<"b", "r", "e", "a", "k", "p", "o", "i", "n", "t">>,
        <<"w", "a", "r", "n", "i", "n", "g">>,
        <<"e", "x", "c", "e", "p", "t", "i", "o", "n">>, <<"t", "r", "y">>,
        <<"c", "a", "t", "c", "h">>>>],
    [topic |-> "performance", keywords |-> <<
        <<"p", "e", "r", "f", "o", "r", "m", "a", "n", "c", "e">>,
        <<"o", "p", "t", "i", "m", "i", "z", "e">>, <<"s", "p", "e", "e", "d">>,
        <<"e", "f", "f", "i", "c", "i", "e", "n", "t">>,
        <<"v", "e", "c", "t", "o", "r", "i", "z", "e">>>>],
    [topic |-> "advanced", keywords |-> <<
        <<"o", "b", "j", "e", "c", "t">>, <<"c", "l", "a", "s", "s">>, <<"o", "o", "p">>,
        <<"h", "a", "n", "d", "l", "e">>,
        <<"a", "n", "o", "n", "y", "m", "o", "u", "s", " ", "f", "u", "n", "c", "t", "i", "o", "n">>,
        <<"l", "a", "m", "b", "d", "a">>>>]
>>

TopicNames == {topicKeywords[t].topic : t \in 1 .. Len(topicKeywords)}

StringValue(s) == [kind |-> "string", s |-> s]
NumberValue == [kind |-> "number", s |-> <<>>]
UndefinedValue == [kind |-> "undefined", s |-> <<>>]

NullTopic == [isNull |-> TRUE, topic |-> ""]
TopicResult(topic) == [isNull |-> FALSE, topic |-> topic]

\* lines 39-50: the score of the t-th topic of the table for the lower-cased message
TopicScore(lowerMessage, t) ==
    LET keywords == topicKeywords[t].keywords
    IN SumSeq([k \in 1 .. Len(keywords) |->
                  MatchCount(lowerMessage, 1, keywords[k]) * Len(keywords[k])])

\* lines 38-55: the entries of topicScores, in the order they were inserted
TopicScores(lowerMessage) ==
    LET all == [t \in 1 .. Len(topicKeywords) |->
                   [topic |-> topicKeywords[t].topic,
                    score |-> TopicScore(lowerMessage, t)]]
    IN SelectSeqIdx(all, {t \in 1 .. Len(all) : all[t].score > 0})

\* a classifier whose fallback is the null its documentation comment mentions
extractTopicNullFallback(message) ==
    IF message.kind # "string" \/ message.s = <<>> THEN NullTopic
    ELSE LET topicScores == TopicScores(toLowerCase(message.s))
         IN IF Len(topicScores) = 0 THEN NullTopic
            ELSE TopicResult(SortByScore(topicScores)[1].topic)

\* a classifier whose sort would put the later of two equal topics first
extractTopicLastOfTies(message) ==
    IF message.kind # "string" \/ message.s = <<>> THEN NullTopic
    ELSE LET topicScores == TopicScores(toLowerCase(message.s))
             best == {t \in 1 .. Len(topicScores) :
                         \A u \in 1 .. Len(topicScores) :
                             topicScores[u].score <= topicScores[t].score}
         IN IF Len(topicScores) = 0 THEN TopicResult("general")
            ELSE TopicResult(topicScores[CHOOSE t \in best : \A u \in best : u <= t].topic)

\* lines 29-66
extractTopic(message) ==
    IF message.kind # "string" \/ message.s = <<>> THEN NullTopic
    ELSE LET topicScores == TopicScores(toLowerCase(message.s))
         IN IF Len(topicScores) = 0 THEN TopicResult("general")
            ELSE TopicResult(SortByScore(topicScores)[1].topic)

(***************************************************************************)
(* One call of extractTopic on a message drawn from a bounded set.         *)
(***************************************************************************)
MaxTopicWords == 3

TopicWords == <<
    <<"f", "o", "r">>, <<"l", "o", "o", "p", "?">>, <<"p", "l", "o", "t">>,
    <<"s", "i", "z", "e">>, <<"L", "o", "o", "p", "i", "n", "g">>,
    <<"n", "e", "s", "t", "e", "d">>, <<"h", "e", "l", "l", "o">>
>>

TopicFixedMessages == <<
    <<"H", "o", "w", " ", "d", "o", " ", "I", " ", "u", "s", "e", " ", "a", " ", "f", "o", "r", " ", "l", "o", "o", "p", " ", "t", "o", " ", "i", "t", "e", "r", "a", "t", "e", "?">>,
    <<" ">>,
    <<"W", "h", "a", "t", " ", "i", "s", " ", "a", " ", "c", "e", "l", "l", " ", "a", "r", "r", "a", "y">>,
    <<"I", "F", " ", "x", " ", "E", "L", "S", "E", " ", "y">>
>>

TopicInputs ==
    {StringValue(s) : s \in TextsUpTo(TopicWords, MaxTopicWords) \cup Range(TopicFixedMessages)}
    \cup {NumberValue, UndefinedValue}

TopicIdle == topicIn = UndefinedValue /\ topicOut = [called |-> FALSE, ret |-> NullTopic]

Classify ==
    /\ ~topicOut.called
    /\ topicOut' = [called |-> TRUE, ret |-> extractTopic(topicIn)]
    /\ UNCHANGED topicIn

(***************************************************************************)
(* CHUNKER: extractAndChunkPDF (pdfEmbeddings.js 7-94).                    *)
(* A document is [filename, pages]: pages[p] is the text the page renderer *)
(* yields for page p.  pdf-parse run with {max: k} returns the texts of    *)
(* the pages 1..k, each preceded by two line feeds.                        *)
(***************************************************************************)
chunkSize == 500
overlap == 100
minChunkLength == 50

Repeat(c, n) == [i \in 1 .. n |-> c]

\* String.prototype.slice(from, to) and substring(from), 0-based as in the code
Slice(s, from, to) == SubSeq(s, from + 1, Min(to, Len(s)))
Substring(s, from) == SubSeq(s, from + 1, Len(s))

RECURSIVE SkipSpaces(_, _)
SkipSpaces(s, i) ==
    IF i > Len(s) \/ ~IsSpace(s[i]) THEN i ELSE SkipSpaces(s, i + 1)
RECURSIVE SkipSpacesBack(_, _)
SkipSpacesBack(s, i) ==
    IF i < 1 \/ ~IsSpace(s[i]) THEN i ELSE SkipSpacesBack(s, i - 1)

\* String.prototype.trim
Trim(s) == SubSeq(s, SkipSpaces(s, 1), SkipSpacesBack(s, Len(s)))

PageSeparator == <<"\n", "\n">>

\* line 37: (await pdfParse(pdfBuffer, {max: pageNum, pagerender})).text
RECURSIVE ParsedText(_, _)
ParsedText(doc, max) ==
    IF max = 0 THEN <<>>
    ELSE ParsedText(doc, max - 1) \o PageSeparator \o doc.pages[max]

\* a loop that would look the previous text up by page number, not by index
RECURSIVE ExtractPagesByNumber(_, _, _, _)
ExtractPagesByNumber(doc, pageNum, pages, failing) ==
    IF pageNum > Len(doc.pages) THEN pages
    ELSE IF pageNum \in failing
      THEN ExtractPagesByNumber(doc, pageNum + 1, pages, failing)
    ELSE LET currentText == ParsedText(doc, pageNum)
             newText == Substring(currentText, Len(ParsedText(doc, pageNum - 1)))
         IN ExtractPagesByNumber(doc, pageNum + 1,
                Append(pages, [pageNumber |-> pageNum, text |-> newText,
                               cumulativeText |-> currentText]),
                failing)

\* lines 28-52: the per-page loop; failing is the set of page numbers whose
\* pdfParse call throws (caught at line 49, the page is left out of pages).
\* pages[pageNum - 2] of the code is pages[pageNum - 1] here (1-based).
RECURSIVE ExtractPages(_, _, _, _)
ExtractPages(doc, pageNum, pages, failing) ==
    IF pageNum > Len(doc.pages) THEN pages
    ELSE IF pageNum \in failing THEN ExtractPages(doc, pageNum + 1, pages, failing)
    ELSE LET previousText ==
                 IF pageNum > 1 /\ pageNum - 1 <= Len(pages)
                   THEN pages[pageNum - 1].cumulativeText ELSE <<>>
             currentText == ParsedText(doc, pageNum)
             newText == Substring(currentText, Len(previousText))
         IN ExtractPages(doc, pageNum + 1,
                Append(pages, [pageNumber |-> pageNum, text |-> newText,
                               cumulativeText |-> currentText]),
                failing)

\* a chunker that would label a fragment with the index of its page in the
\* pages array, which counts from zero
RECURSIVE ChunkFromPageIndex(_, _, _, _)
ChunkFromPageIndex(text, i, pageNumber, filename) ==
    IF i >= Len(text) THEN <<>>
    ELSE LET chunk == Slice(text, i, i + chunkSize)
         IN (IF Len(Trim(chunk)) > minChunkLength
               THEN <<[content |-> Trim(chunk), filename |-> filename,
                       page |-> pageNumber - 1, start_char |-> i]>>
               ELSE <<>>)
            \o ChunkFromPageIndex(text, i + chunkSize - overlap, pageNumber, filename)

\* a chunker that would keep every window that is not blank
RECURSIVE ChunkFromKeepShort(_, _, _, _)
ChunkFromKeepShort(text, i, pageNumber, filename) ==
    IF i >= Len(text) THEN <<>>
    ELSE LET chunk == Slice(text, i, i + chunkSize)
         IN (IF Len(Trim(chunk)) > 0
               THEN <<[content |-> Trim(chunk), filename |-> filename,
                       page |-> pageNumber, start_char |-> i]>>
               ELSE <<>>)
            \o ChunkFromKeepShort(text, i + chunkSize - overlap, pageNumber, filename)

\* a chunker whose windows would not overlap (i += chunkSize)
RECURSIVE ChunkFromNoOverlap(_, _, _, _)
ChunkFromNoOverlap(text, i, pageNumber, filename) ==
    IF i >= Len(text) THEN <<>>
    ELSE LET chunk == Slice(text, i, i + chunkSize)
         IN (IF Len(Trim(chunk)) > minChunkLength
               THEN <<[content |-> Trim(chunk), filename |-> filename,
                       page |-> pageNumber, start_char |-> i]>>
               ELSE <<>>)
            \o ChunkFromNoOverlap(text, i + chunkSize, pageNumber, filename)

\* lines 67-77: the windows of one page, from offset i on
RECURSIVE ChunkFrom(_, _, _, _)
ChunkFrom(text, i, pageNumber, filename) ==
    IF i >= Len(text) THEN <<>>
    ELSE LET chunk == Slice(text, i, i + chunkSize)
         IN (IF Len(Trim(chunk)) > minChunkLength
               THEN <<[content |-> Trim(chunk), filename |-> filename,
                       page |-> pageNumber, start_char |-> i]>>
               ELSE <<>>)
            \o ChunkFrom(text, i + chunkSize - overlap, pageNumber, filename)

\* lines 61-78: pages.forEach
RECURSIVE ChunkPages(_, _)
ChunkPages(pages, filename) ==
    IF pages = <<>> THEN <<>>
    ELSE (IF Len(Trim(pages[1].text)) = 0 THEN <<>>
          ELSE ChunkFrom(pages[1].text, 0, pages[1].pageNumber, filename))
         \o ChunkPages(Tail(pages), filename)

\* lines 7-94; parseError: the first pdfParse call (line 20) throws, and the
\* function throws 'Failed to extract PDF content'
extractAndChunkPDF(doc, parseError, failing) ==
    IF parseError THEN [threw |-> TRUE, chunks |-> <<>>]
    ELSE [threw |-> FALSE,
          chunks |-> ChunkPages(ExtractPages(doc, 1, <<>>, failing), doc.filename)]

\* lines 358-366: the rows storePDFChunks inserts
chunksWithMetadata(courseId, pdfId, chunks) ==
    [index \in 1 .. Len(chunks) |->
        [course_id |-> courseId, pdf_id |-> pdfId, chunk_index |-> index - 1,
         content |-> chunks[index].content, filename |-> chunks[index].filename,
         page |-> chunks[index].page, start_char |-> chunks[index].start_char]]

(***************************************************************************)
(* UPLOAD ROUTE: POST /api/pdfs/upload (unnamed/part_002 26-97).           *)
(***************************************************************************)
MaxUploads == 2
NumCourses == 1

Courses == 1 .. NumCourses

\* the text of page p is made of the p-th letter, so that the page a
\* character comes from can be read off a fragment
Marker(p) == LowerLetters[p]
Body(p, n) == Repeat(Marker(p), n)

Documents == <<
    [filename |-> "notes.pdf",
     pages |-> <<Body(1, 450), Body(2, 60), Body(3, 60)>>],
    [filename |-> "slides.pdf",
     pages |-> <<Repeat(" ", 3), <<" ", " ">> \o Body(2, 60) \o <<" ">>>>],
    [filename |-> "cover.pdf",
     pages |-> <<Body(1, 10)>>]
>>

NoFault == [owner |-> TRUE, storageError |-> FALSE, dbError |-> FALSE,
            parseError |-> FALSE, failing |-> {}, storeError |-> FALSE]

\* what can happen to one upload of doc: one fault of one collaborator, or
\* one page whose extraction fails, or none
UploadOutcomes(doc) ==
    {NoFault,
     [NoFault EXCEPT !.owner = FALSE],
     [NoFault EXCEPT !.storageError = TRUE],
     [NoFault EXCEPT !.dbError = TRUE],
     [NoFault EXCEPT !.parseError = TRUE],
     [NoFault EXCEPT !.storeError = TRUE]}
    \cup {[NoFault EXCEPT !.failing = {p}] : p \in 1 .. Len(doc.pages)}

NoResponse == [status |-> 0, pdf |-> 0]

IngestIdle ==
    pdfs = <<>> /\ pdf_chunks = <<>> /\ response = NoResponse /\ nextPdfId = 1

\* an inner handler that would let the failure reach the route's own catch
ProcessChunksFatal(stored, course_id, id, doc, o) ==
    LET extracted == extractAndChunkPDF(doc, o.parseError, o.failing)
    IN [threw |-> extracted.threw \/ o.storeError,
        rows |-> IF extracted.threw \/ o.storeError THEN stored
                 ELSE stored \o chunksWithMetadata(course_id, id, extracted.chunks)]

\* lines 82-90: extract, store in one insert, and swallow what either throws;
\* stored is table pdf_chunks before, rows is the table after
ProcessChunks(stored, course_id, id, doc, o) ==
    LET extracted == extractAndChunkPDF(doc, o.parseError, o.failing)
    IN [threw |-> FALSE,
        rows |-> IF extracted.threw \/ o.storeError THEN stored
                 ELSE stored \o chunksWithMetadata(course_id, id, extracted.chunks)]

\* lines 26-97
Upload(course_id, doc, o) ==
    /\ nextPdfId <= MaxUploads
    /\ IF ~o.owner
         THEN /\ response' = [status |-> 403, pdf |-> 0]
              /\ UNCHANGED <<pdfs, pdf_chunks, nextPdfId>>
       ELSE IF o.storageError \/ o.dbError
         THEN /\ response' = [status |-> 500, pdf |-> 0]
              /\ UNCHANGED <<pdfs, pdf_chunks, nextPdfId>>
       ELSE LET id == nextPdfId
                processed == ProcessChunks(pdf_chunks, course_id, id, doc, o)
            IN /\ pdfs' = Append(pdfs, [id |-> id, course_id |-> course_id,
                                        filename |-> doc.filename, doc |-> doc])
               /\ nextPdfId' = nextPdfId + 1
               /\ pdf_chunks' = processed.rows
               /\ response' = IF processed.threw THEN [status |-> 500, pdf |-> 0]
                               ELSE [status |-> 201, pdf |-> id]

\* the rows of a table that do not belong to document id
WithoutPdf(rows, id, column) ==
    SelectSeqIdx(rows, {i \in 1 .. Len(rows) : rows[i][column] # id})

\* a schema whose pdf_chunks.pdf_id would not cascade
OnDeleteNoAction(chunks, id) == chunks

\* unnamed/part_013 line 119: pdf_id REFERENCES pdfs(id) ON DELETE CASCADE
OnDeleteCascade(chunks, id) == WithoutPdf(chunks, id, "pdf_id")

NoDeleteFault == [pdfError |-> FALSE, owner |-> TRUE, storageError |-> FALSE,
                  chunkDeleteError |-> FALSE, deleteError |-> FALSE]

\* what can happen to one DELETE: the faults of the collaborators
DeleteOutcomes ==
    {[NoDeleteFault EXCEPT !.pdfError = TRUE], [NoDeleteFault EXCEPT !.owner = FALSE]}
    \cup {[NoDeleteFault EXCEPT !.storageError = TRUE]}
    \cup {[NoDeleteFault EXCEPT !.chunkDeleteError = c, !.deleteError = d] :
             c, d \in BOOLEAN}

\* lines 125-172: DELETE /api/pdfs/:id
Delete(id, o) ==
    /\ UNCHANGED nextPdfId
    /\ IF o.pdfError \/ ~\E i \in 1 .. Len(pdfs) : pdfs[i].id = id
         THEN /\ response' = [status |-> 404, pdf |-> 0]
              /\ UNCHANGED <<pdfs, pdf_chunks>>
       ELSE IF ~o.owner
         THEN /\ response' = [status |-> 403, pdf |-> 0]
              /\ UNCHANGED <<pdfs, pdf_chunks>>
       ELSE LET afterChunkDelete ==
                    IF o.chunkDeleteError THEN pdf_chunks
                    ELSE WithoutPdf(pdf_chunks, id, "pdf_id")
            IN IF o.deleteError
                 THEN /\ pdf_chunks' = afterChunkDelete
                      /\ response' = [status |-> 500, pdf |-> 0]
                      /\ UNCHANGED pdfs
                 ELSE /\ pdfs' = WithoutPdf(pdfs, id, "id")
                      /\ pdf_chunks' = OnDeleteCascade(afterChunkDelete, id)
                      /\ response' = [status |-> 200, pdf |-> id]

ChunksOf(pdfId) ==
    SelectSeqIdx(pdf_chunks, {i \in 1 .. Len(pdf_chunks) : pdf_chunks[i].pdf_id = pdfId})

(***************************************************************************)
(* THE CHUNKER ON ITS OWN: one call of extractAndChunkPDF                  *)
(* (pdfEmbeddings.js 7-94) on a document built from page shapes.           *)
(* A page shape is [lead, body, trail]: lead blanks, body marker letters,  *)
(* trail blanks.  With the two-character separator pdf-parse puts before   *)
(* each page, a body of 50 gives a page text of trimmed length 50, a body  *)
(* of 449 a closing window of 51, the padded body of 443 a closing window  *)
(* of trimmed length 47, and a body of 520 a first window of 500.          *)
(***************************************************************************)
MaxPages == 2

BlankPage == [lead |-> 3, body |-> 0, trail |-> 0]
PageShapes ==
    {BlankPage,
     [lead |-> 0, body |-> 50, trail |-> 0],
     [lead |-> 0, body |-> 449, trail |-> 0],
     [lead |-> 2, body |-> 443, trail |-> 1],
     [lead |-> 0, body |-> 520, trail |-> 0]}

PageText(p, shape) ==
    Repeat(" ", shape.lead) \o Body(p, shape.body) \o Repeat(" ", shape.trail)

ChunkerDocuments ==
    UNION {{[filename |-> "handout.pdf",
             pages |-> [p \in 1 .. n |-> PageText(p, shapes[p])]] :
               shapes \in [1 .. n -> PageShapes]} : n \in 1 .. MaxPages}

\* a call: the document, whether the first pdfParse call throws, and the
\* pages whose own pdfParse call throws
ChunkerInputs ==
    UNION {{[doc |-> doc, parseError |-> TRUE, failing |-> {}]}
           \cup {[doc |-> doc, parseError |-> FALSE, failing |-> f] :
                    f \in SUBSET (1 .. Len(doc.pages))} : doc \in ChunkerDocuments}

NoChunkerInput == [doc |-> [filename |-> "", pages |-> <<>>],
                   parseError |-> FALSE, failing |-> {}]
NoChunkerResult == [called |-> FALSE, threw |-> FALSE, chunks |-> <<>>]
ChunkIdle == chunkIn = NoChunkerInput /\ chunkOut = NoChunkerResult

Extract ==
    /\ ~chunkOut.called
    /\ \E ret \in {extractAndChunkPDF(chunkIn.doc, chunkIn.parseError, chunkIn.failing)} :
          chunkOut' = [called |-> TRUE, threw |-> ret.threw, chunks |-> ret.chunks]
    /\ UNCHANGED chunkIn

(***************************************************************************)
(* RELEVANCE SCORER: searchRelevantChunks and its helpers                  *)
(* (pdfEmbeddings.js 104-347).                                             *)
(* Scores are fractional in the code (Math.log, * 1.3).  Here a score is   *)
(* an integer number of 1 / (10 * ScoreScale): the sum of the five parts   *)
(* is kept in 1 / ScoreScale and the context multiplier is 13 or 10.       *)
(***************************************************************************)
ScoreScale == 10000

\* Math.log(total / with) in 1 / ScoreScale, rounded, for with <= total <= 6
LnScaled(total, with) ==
    <<<<0>>,
      <<6931, 0>>,
      <<10986, 4055, 0>>,
      <<13863, 6931, 2877, 0>>,
      <<16094, 9163, 5108, 2231, 0>>,
      <<17918, 10986, 6931, 4055, 1823, 0>>>>[total][with]

stopWords == {
    <<"a">>, <<"a", "n">>, <<"t", "h", "e">>, <<"i", "s">>, <<"a", "r", "e">>,
    <<"w", "a", "s">>, <<"w", "e", "r", "e">>, <<"b", "e">>, <<"b", "e", "e", "n">>,
    <<"b", "e", "i", "n", "g">>, <<"h", "a", "v", "e">>, <<"h", "a", "s">>,
    <<"h", "a", "d">>, <<"d", "o">>, <<"d", "o", "e", "s">>, <<"d", "i", "d">>,
    <<"w", "i", "l", "l">>, <<"w", "o", "u", "l", "d">>,
    <<"s", "h", "o", "u", "l", "d">>, <<"c", "o", "u", "l", "d">>, <<"c", "a", "n">>,
    <<"m", "a", "y">>, <<"m", "i", "g", "h", "t">>, <<"m", "u", "s", "t">>, <<"i">>,
    <<"y", "o", "u">>, <<"h", "e">>, <<"s", "h", "e">>, <<"i", "t">>, <<"w", "e">>,
    <<"t", "h", "e", "y">>, <<"w", "h", "a", "t">>, <<"w", "h", "i", "c", "h">>,
    <<"w", "h", "o">>, <<"w", "h", "e", "n">>, <<"w", "h", "e", "r", "e">>,
    <<"w", "h", "y">>, <<"h", "o", "w">>, <<"t", "o">>, <<"f", "r", "o", "m">>,
    <<"i", "n">>, <<"o", "n">>, <<"a", "t">>, <<"b", "y">>, <<"f", "o", "r">>,
    <<"w", "i", "t", "h">>, <<"a", "b", "o", "u", "t">>, <<"a", "s">>,
    <<"t", "h", "i", "s">>, <<"t", "h", "a", "t">>, <<"t", "h", "e", "s", "e">>,
    <<"t", "h", "o", "s", "e">>, <<"m", "y">>, <<"y", "o", "u", "r">>,
    <<"h", "e", "l", "p">>, <<"m", "e">>,
    <<"u", "n", "d", "e", "r", "s", "t", "a", "n", "d">>
}

expansions == <<
    [keyword |-> <<"l", "o", "o", "p">>,
     related |-> <<<<"f", "o", "r">>, <<"w", "h", "i", "l", "e">>,
                  <<"i", "t", "e", "r", "a", "t", "i", "o", "n">>,
                  <<"r", "e", "p", "e", "a", "t">>,
                  <<"c", "o", "n", "t", "r", "o", "l", " ", "f", "l", "o", "w">>>>],
    [keyword |-> <<"l", "o", "o", "p", "s">>,
     related |-> <<<<"f", "o", "r">>, <<"w", "h", "i", "l", "e">>,
                  <<"i", "t", "e", "r", "a", "t", "i", "o", "n">>,
                  <<"r", "e", "p", "e", "a", "t">>,
                  <<"c", "o", "n", "t", "r", "o", "l", " ", "f", "l", "o", "w">>>>],
    [keyword |-> <<"f", "u", "n", "c", "t", "i", "o", "n">>,
     related |-> <<<<"f", "u", "n", "c", "t", "i", "o", "n", "s">>,
                  <<"m", "e", "t", "h", "o", "d">>,
                  <<"s", "u", "b", "r", "o", "u", "t", "i", "n", "e">>>>],
    [keyword |-> <<"f", "u", "n", "c", "t", "i", "o", "n", "s">>,
     related |-> <<<<"f", "u", "n", "c", "t", "i", "o", "n">>,
                  <<"m", "e", "t", "h", "o", "d">>,
                  <<"s", "u", "b", "r", "o", "u", "t", "i", "n", "e">>>>],
    [keyword |-> <<"a", "r", "r", "a", "y">>,
     related |-> <<<<"a", "r", "r", "a", "y", "s">>, <<"m", "a", "t", "r", "i", "x">>,
                  <<"m", "a", "t", "r", "i", "c", "e", "s">>,
                  <<"v", "e", "c", "t", "o", "r">>>>],
    [keyword |-> <<"a", "r", "r", "a", "y", "s">>,
     related |-> <<<<"a", "r", "r", "a", "y">>, <<"m", "a", "t", "r", "i", "x">>,
                  <<"m", "a", "t", "r", "i", "c", "e", "s">>,
                  <<"v", "e", "c", "t", "o", "r">>>>],
    [keyword |-> <<"p", "l", "o", "t">>,
     related |-> <<<<"p", "l", "o", "t", "t", "i", "n", "g">>,
                  <<"g", "r", "a", "p", "h">>,
                  <<"v", "i", "s", "u", "a", "l", "i", "z", "a", "t", "i", "o", "n">>,
                  <<"f", "i", "g", "u", "r", "e">>>>],
    [keyword |-> <<"v", "a", "r", "i", "a", "b", "l", "e">>,
     related |-> <<<<"v", "a", "r", "i", "a", "b", "l", "e", "s">>,
                  <<"d", "a", "t", "a">>, <<"v", "a", "l", "u", "e">>>>],
    [keyword |-> <<"c", "o", "n", "d", "i", "t", "i", "o", "n", "a", "l">>,
     related |-> <<<<"i", "f">>, <<"e", "l", "s", "e">>, <<"s", "w", "i", "t", "c", "h">>,
                  <<"c", "a", "s", "e">>,
                  <<"c", "o", "n", "d", "i", "t", "i", "o", "n">>>>],
    [keyword |-> <<"e", "r", "r", "o", "r">>,
     related |-> <<<<"e", "r", "r", "o", "r", "s">>,
                  <<"e", "x", "c", "e", "p", "t", "i", "o", "n">>,
                  <<"d", "e", "b", "u", "g">>,
                  <<"d", "e", "b", "u", "g", "g", "i", "n", "g">>>>]
>>

\* String.prototype.split(/\s+/): the pieces between the runs of white space,
\* an empty piece at an end where the string starts or ends with white space
RECURSIVE SplitFrom(_, _, _)
SplitFrom(s, i, piece) ==
    IF i > Len(s) THEN <<piece>>
    ELSE IF IsSpace(s[i]) THEN <<piece>> \o SplitFrom(s, SkipSpaces(s, i), <<>>)
    ELSE SplitFrom(s, i + 1, Append(piece, s[i]))
split(s) == SplitFrom(s, 1, <<>>)

\* filter((word, index, self) => self.indexOf(word) === index), and the
\* insertion order of a Set
Unique(seq) ==
    SelectSeqIdx(seq, {i \in 1 .. Len(seq) : \A j \in 1 .. i - 1 : seq[j] # seq[i]})

RECURSIVE Flatten(_)
Flatten(seqs) == IF seqs = <<>> THEN <<>> ELSE seqs[1] \o Flatten(Tail(seqs))

\* line 343: replace(/[^\w\s]/g, ' ')
StripPunctuation(text) ==
    [i \in 1 .. Len(text) |->
        IF IsWordChar(text[i]) \/ IsSpace(text[i]) THEN text[i] ELSE " "]

\* an extraction without the last filter (line 346), which keeps repeats
extractKeywordsKeepRepeats(text) ==
    LET words == split(StripPunctuation(text))
    IN SelectSeqIdx(words,
           {i \in 1 .. Len(words) : Len(words[i]) > 2 /\ words[i] \notin stopWords})

\* lines 331-347
extractKeywords(text) ==
    LET words == split(StripPunctuation(text))
    IN Unique(SelectSeqIdx(words,
           {i \in 1 .. Len(words) : Len(words[i]) > 2 /\ words[i] \notin stopWords}))

\* lines 304-326
expandQueryKeywords(keywords) ==
    LET related(keyword) ==
            LET hits == {e \in 1 .. Len(expansions) : expansions[e].keyword = keyword}
            IN IF hits = {} THEN <<>> ELSE expansions[CHOOSE e \in hits : TRUE].related
    IN Unique(Flatten([k \in 1 .. Len(keywords) |-> related(keywords[k])]))

\* new RegExp(`\\b${keyword}\\b`, 'i').test(text)
WordTest(text, keyword) == \E i \in 1 .. Len(text) : WordMatchAt(text, i, keyword)

\* lines 171-188: idf[keyword], in 1 / ScoreScale
calculateIDF(keyword, chunks) ==
    LET chunksWithKeyword ==
            Cardinality({c \in 1 .. Len(chunks) : WordTest(chunks[c].content, keyword)})
    IN IF chunksWithKeyword > 0
         THEN LnScaled(Len(chunks), chunksWithKeyword) + ScoreScale
         ELSE ScoreScale

\* where \s+ ends when it starts at position p; 0 when s has no white space there
AfterSpaces(s, p) == IF p <= Len(s) /\ IsSpace(s[p]) THEN SkipSpaces(s, p) ELSE 0

\* t matches \d+(\.\d+)* as a whole
IsDottedNumber(t) ==
    /\ Len(t) > 0
    /\ \A k \in 1 .. Len(t) : t[k] \in DigitChars \cup {"."}
    /\ t[1] \in DigitChars /\ t[Len(t)] \in DigitChars
    /\ \A k \in 1 .. Len(t) - 1 : ~(t[k] = "." /\ t[k + 1] = ".")

\* \d+(\.\d+)*\s+[A-Z] matches s from position i on (no flag i: [A-Z] is upper case)
NumberedHeadingAt(s, i) ==
    \E j \in i .. Len(s) :
        /\ s[i] \in DigitChars /\ s[j] \in DigitChars
        /\ IsDottedNumber(SubSeq(s, i, j))
        /\ LET q == AfterSpaces(s, j + 1) IN q # 0 /\ q <= Len(s) /\ IsUpper(s[q])

\* lit\s+\d+ matches s from position i on, ignoring case
LitNumberAt(s, i, lit) ==
    /\ LitAt(s, i, lit)
    /\ LET q == AfterSpaces(s, i + Len(lit)) IN q # 0 /\ q <= Len(s) /\ s[q] \in DigitChars

\* first\s+second matches s from position i on, ignoring case
LitSpacesLitAt(s, i, first, second) ==
    /\ LitAt(s, i, first)
    /\ LET q == AfterSpaces(s, i + Len(first)) IN q # 0 /\ LitAt(s, q, second)

DefinitionVerbs == {<<"i", "s">>, <<"a", "r", "e">>, <<"m", "e", "a", "n", "s">>,
                    <<"r", "e", "f", "e", "r", "s", " ", "t", "o">>,
                    <<"d", "e", "f", "i", "n", "e", "d", " ", "a", "s">>}
DefinitionLeads == {<<"d", "e", "f", "i", "n", "i", "t", "i", "o", "n">>,
                    <<"w", "h", "a", "t", " ", "i", "s">>,
                    <<"d", "e", "f", "i", "n", "e">>}
ExampleMarkers == {<<"e", "x", "a", "m", "p", "l", "e">>,
                   <<"f", "o", "r", " ", "i", "n", "s", "t", "a", "n", "c", "e">>,
                   <<"s", "u", "c", "h", " ", "a", "s">>,
                   <<"e", ".", "g", ".">>,
                   <<"c", "o", "n", "s", "i", "d", "e", "r">>}
CaptionWords == {<<"f", "i", "g", "u", "r", "e">>, <<"t", "a", "b", "l", "e">>,
                 <<"d", "i", "a", "g", "r", "a", "m">>}
SectionWord == <<"s", "e", "c", "t", "i", "o", "n">>
ChapterWord == <<"c", "h", "a", "p", "t", "e", "r">>
RichLeads == {ChapterWord, SectionWord,
              <<"i", "n", "t", "r", "o", "d", "u", "c", "t", "i", "o", "n">>,
              <<"d", "e", "f", "i", "n", "i", "t", "i", "o", "n">>,
              <<"o", "v", "e", "r", "v", "i", "e", "w">>}
RichPhrases == {<<"d", "e", "f", "i", "n", "e">>,
                <<"d", "e", "f", "i", "n", "i", "t", "i", "o", "n">>,
                <<"m", "e", "a", "n", "s">>,
                <<"r", "e", "f", "e", "r", "s", " ", "t", "o">>,
                <<"i", "s", " ", "d", "e", "f", "i", "n", "e", "d", " ", "a", "s">>}

\* lines 193-226
detectSemanticMarkers(text, keywords) ==
    LET at == 1 .. Len(text)
        sectionBoost ==
            IF \/ \E i \in at : BoundaryAt(text, i) /\ NumberedHeadingAt(text, i)
               \/ \E i \in at : BoundaryAt(text, i) /\ LitNumberAt(text, i, SectionWord)
               \/ \E i \in at : BoundaryAt(text, i) /\ LitNumberAt(text, i, ChapterWord)
              THEN 50 ELSE 0
        definitionBoost(keyword) ==
            (IF \E i \in at : \E verb \in DefinitionVerbs :
                    LitSpacesLitAt(text, i, keyword, verb) THEN 40 ELSE 0)
            + (IF \E i \in at : \E lead \in DefinitionLeads :
                    LitSpacesLitAt(text, i, lead, keyword) THEN 40 ELSE 0)
        exampleBoost ==
            IF \E i \in at : \E marker \in ExampleMarkers : WordMatchAt(text, i, marker)
              THEN 20 ELSE 0
        captionBoost ==
            IF \E i \in at : \E word \in CaptionWords :
                   BoundaryAt(text, i) /\ LitNumberAt(text, i, word)
              THEN 30 ELSE 0
    IN sectionBoost
       + SumSeq([k \in 1 .. Len(keywords) |-> definitionBoost(keywords[k])])
       + exampleBoost + captionBoost

\* String.prototype.includes
Includes(word, part) ==
    \E i \in 1 .. Len(word) - Len(part) + 1 : SubSeq(word, i, i + Len(part) - 1) = part

\* lines 238-246: the indexes (from 0) of the words that include the keyword
Positions(words, keyword) ==
    SelectSeqIdx([idx \in 1 .. Len(words) |-> idx - 1],
                 {idx \in 1 .. Len(words) : Includes(words[idx], keyword)})

\* lines 231-263
calculateProximityBonus(text, keywords) ==
    IF Len(keywords) < 2 THEN 0
    ELSE LET words == split(toLowerCase(text))
             positions == [k \in 1 .. Len(keywords) |-> Positions(words, keywords[k])]
             pairBonus(pos1, pos2) ==
                 LET distance == IF pos1 >= pos2 THEN pos1 - pos2 ELSE pos2 - pos1
                 IN IF distance < 20 THEN (20 - distance) * 2 ELSE 0
             between(i, j) ==
                 SumSeq([a \in 1 .. Len(positions[i]) |->
                     SumSeq([b \in 1 .. Len(positions[j]) |->
                         pairBonus(positions[i][a], positions[j][b])])])
         IN SumSeq([i \in 1 .. Len(keywords) |->
                SumSeq([j \in 1 .. Len(keywords) |-> IF j > i THEN between(i, j) ELSE 0])])

\* lines 268-276
isContextRich(text) ==
    \/ NumberedHeadingAt(text, 1)
    \/ \E lead \in RichLeads : LitAt(text, 1, lead)
    \/ \E i \in 1 .. Len(text) : \E phrase \in RichPhrases : WordMatchAt(text, i, phrase)

\* a call that would hand the expanded keywords to the proximity bonus too
ProximityKeywordsWithExpanded(queryKeywords, expandedKeywords) ==
    queryKeywords \o expandedKeywords

\* line 146: the keywords handed to calculateProximityBonus
ProximityKeywords(queryKeywords, expandedKeywords) == queryKeywords

\* a scorer that would leave the primary keywords out of the keyword score
KeywordScoreExpandedOnly(chunkText, queryKeywords, expandedKeywords, allChunks) ==
    SumSeq([k \in 1 .. Len(expandedKeywords) |->
               MatchCount(chunkText, 1, expandedKeywords[k])
               * Len(expandedKeywords[k]) * 2]) * ScoreScale

\* lines 121-139: the keyword parts of a chunk's score, in 1 / ScoreScale
KeywordScore(chunkText, queryKeywords, expandedKeywords, allChunks) ==
    SumSeq([k \in 1 .. Len(queryKeywords) |->
               MatchCount(chunkText, 1, queryKeywords[k])
               * calculateIDF(queryKeywords[k], allChunks)
               * Len(queryKeywords[k]) * 5])
    + SumSeq([k \in 1 .. Len(expandedKeywords) |->
               MatchCount(chunkText, 1, expandedKeywords[k])
               * Len(expandedKeywords[k]) * 2]) * ScoreScale

\* lines 117-155: the score of one chunk, in 1 / (10 * ScoreScale)
ScoreChunk(chunk, queryKeywords, expandedKeywords, allChunks) ==
    LET chunkText == toLowerCase(chunk.content)
        score == KeywordScore(chunkText, queryKeywords, expandedKeywords, allChunks)
                 + detectSemanticMarkers(chunkText, queryKeywords) * ScoreScale
                 + calculateProximityBonus(chunkText,
                       ProximityKeywords(queryKeywords, expandedKeywords)) * ScoreScale
    IN IF isContextRich(chunkText) THEN score * 13 ELSE score * 10

\* lines 281-299: the loop over the sorted chunks from the i-th on; result is
\* what was admitted so far and pageCount the admissions per page
RECURSIVE DiversityFrom(_, _, _, _, _)
DiversityFrom(chunks, i, topK, result, pageCount) ==
    IF i > Len(chunks) THEN result
    ELSE LET page == chunks[i].page
             count == IF page \in DOMAIN pageCount THEN pageCount[page] ELSE 0
             admit == count < 2 \/ 2 * Len(result) < topK
             result2 == IF admit THEN Append(result, chunks[i]) ELSE result
             pageCount2 == [p \in DOMAIN pageCount \cup {page} |->
                               IF p = page THEN (IF admit THEN count + 1 ELSE count)
                               ELSE pageCount[p]]
         IN IF 2 * Len(result2) >= 3 * topK THEN result2
            ELSE DiversityFrom(chunks, i + 1, topK, result2, pageCount2)

\* a filter that would only cut the sorted list at 1.5 K (line 295) and
\* never look at the page
ensurePageDiversityCutOnly(chunks, topK) ==
    SubSeq(chunks, 1, Min(Len(chunks), (3 * topK + 1) \div 2))

\* a filter that would admit on the K/2 clause alone, whatever the page
ensurePageDiversityBootstrapOnly(chunks, topK) ==
    SubSeq(chunks, 1, Min(Len(chunks), (topK + 1) \div 2))

ensurePageDiversity(chunks, topK) == DiversityFrom(chunks, 1, topK, <<>>, <<>>)

\* a filter that would keep the fragments that score zero
PositiveScoresOrZero(scoredChunks) ==
    SelectSeqIdx(scoredChunks, {i \in 1 .. Len(scoredChunks) : scoredChunks[i].score >= 0})

\* line 160: filter(chunk => chunk.score > 0)
PositiveScores(scoredChunks) ==
    SelectSeqIdx(scoredChunks, {i \in 1 .. Len(scoredChunks) : scoredChunks[i].score > 0})

\* a ranking that would cut the sorted list at K without the diversity filter
RankChunksUnfiltered(scoredChunks, topK) ==
    LET topChunks == PositiveScores(SortByScore(scoredChunks))
    IN SubSeq(topChunks, 1, Min(topK, Len(topChunks)))

\* lines 158-165: sort by score, keep the positive scores, filter for page
\* diversity, slice(0, topK)
RankChunks(scoredChunks, topK) ==
    LET topChunks == PositiveScores(SortByScore(scoredChunks))
        diverseChunks == ensurePageDiversity(topChunks, topK)
    IN SubSeq(diverseChunks, 1, Min(topK, Len(diverseChunks)))

\* lines 110-155: the array allChunks.map builds, a new object
\* {...chunk, score} for each chunk
ScoreAll(query, allChunks) ==
    LET queryKeywords == extractKeywords(toLowerCase(query))
        expandedKeywords == expandQueryKeywords(queryKeywords)
    IN [c \in 1 .. Len(allChunks) |->
           [id |-> allChunks[c].id, content |-> allChunks[c].content,
            filename |-> allChunks[c].filename, page |-> allChunks[c].page,
            score |-> ScoreChunk(allChunks[c], queryKeywords,
                                 expandedKeywords, allChunks)]]

\* lines 104-166
searchRelevantChunks(query, allChunks, topK) ==
    IF Len(allChunks) = 0 THEN <<>>
    ELSE RankChunks(ScoreAll(query, allChunks), topK)

\* a scorer that would write the score into each chunk it was given and
\* sort the array it was given (Array.prototype.sort works in place)
AllChunksAfterInPlace(query, allChunks) == SortByScore(ScoreAll(query, allChunks))

\* what a call leaves in the array it was given.  map (line 117) returns a
\* new array of new objects; sort (line 159) reorders that new array in
\* place; filter (160), the result array of ensurePageDiversity (282) and
\* slice (165) are new arrays; calculateIDF only reads (176-179).  Nothing
\* assigns to allChunks or to a property of one of its elements.
AllChunksAfter(query, allChunks) == allChunks

(***************************************************************************)
(* One call of searchRelevantChunks on a query, a corpus and a K drawn     *)
(* from bounded sets.  A corpus is a sequence of fragments of the          *)
(* catalogue; the id of a fragment is its place in the corpus.             *)
(***************************************************************************)
MaxCorpus == 3

ChunkCatalogue == <<
    [content |-> <<"f", "o", "r", " ", "l", "o", "o", "p", " ", "i", "t", "e", "r", "a", "t", "i", "o", "n">>,
     page |-> 1],
    [content |-> <<"p", "l", "o", "t", " ", "t", "h", "e", " ", "l", "o", "o", "p">>,
     page |-> 1],
    [content |-> <<"a", "n", " ", "e", "x", "a", "m", "p", "l", "e", " ", "o", "f", " ", "s", "o", "r", "t", "i", "n", "g">>,
     page |-> 2],
    [content |-> <<"S", "e", "c", "t", "i", "o", "n", " ", "5", " ", "a", "r", "r", "a", "y", "s">>,
     page |-> 2],
    [content |-> <<"i", "t", "e", "r", "a", "t", "i", "o", "n">>,
     page |-> 2]
>>

Queries == <<
    <<"l", "o", "o", "p">>,
    <<"P", "l", "o", "t", " ", "a", " ", "l", "o", "o", "p", "?">>,
    <<"r", "e", "c", "u", "r", "s", "i", "o", "n">>,
    <<"h", "o", "w", " ", "i", "s", " ", "t", "h", "e">>
>>

TopKValues == {3, 8}

Corpora ==
    UNION {{[c \in 1 .. n |->
                [id |-> c, content |-> ChunkCatalogue[pick[c]].content,
                 filename |-> "notes.pdf", page |-> ChunkCatalogue[pick[c]].page]] :
              pick \in [1 .. n -> 1 .. Len(ChunkCatalogue)]} : n \in 0 .. MaxCorpus}

NoSearch == [query |-> <<>>, allChunks |-> <<>>, topK |-> 0]

SearchIdle == searchIn = NoSearch /\ searchOut = [called |-> FALSE, ret |-> <<>>]

Search ==
    /\ ~searchOut.called
    /\ searchOut' = [called |-> TRUE,
                     ret |-> searchRelevantChunks(searchIn.query, searchIn.allChunks,
                                                  searchIn.topK)]
    /\ searchIn' = [searchIn EXCEPT
                       !.allChunks = AllChunksAfter(searchIn.query, searchIn.allChunks)]

(***************************************************************************)
(* One call of searchRelevantChunks on a corpus of fragments with and      *)
(* without a structural marker: a numbered heading, "Section N",           *)
(* "chapter N", none, and a dotted number that heads nothing.              *)
(***************************************************************************)
MarkerFragments == <<
    <<"1", ".", "2", " ", "L", "o", "o", "p", "s", " ", "r", "e", "p", "e", "a", "t">>,
    <<"3", " ", "L", "o", "o", "p", "s">>,
    <<"S", "e", "c", "t", "i", "o", "n", " ", "5", " ", "l", "o", "o", "p", "s">>,
    <<"c", "h", "a", "p", "t", "e", "r", " ", "3", " ", "a", "r", "r", "a", "y", "s">>,
    <<"l", "o", "o", "p", "s", " ", "r", "e", "p", "e", "a", "t">>,
    <<"v", "e", "r", "s", "i", "o", "n", " ", "1", ".", "2", " ", "i", "s">>
>>

MarkerQueries == {<<"l", "o", "o", "p", "s">>,
                  <<"r", "e", "c", "u", "r", "s", "i", "o", "n">>,
                  <<"H", "o", "w", " ", "i", "s", " ", "t", "h", "e">>}

MarkerCorpora ==
    UNION {{[c \in 1 .. n |->
                [id |-> c, content |-> MarkerFragments[pick[c]],
                 filename |-> "notes.pdf", page |-> c]] :
              pick \in [1 .. n -> 1 .. Len(MarkerFragments)]} : n \in 0 .. MaxCorpus}

(***************************************************************************)
(* One call of searchRelevantChunks on a corpus made of a fragment A that  *)
(* holds "loop" three times and a fragment B that holds "iteration" once   *)
(* and no "loop", each with some more text, for a query whose one primary  *)
(* keyword is "loop".  Every fragment is on a page of its own.             *)
(***************************************************************************)
LoopQueries == {<<"l", "o", "o", "p">>,
                <<"W", "h", "a", "t", " ", "i", "s", " ", "a", " ", "l", "o", "o", "p", "?">>}

FragmentsA == {<<"l", "o", "o", "p", " ", "l", "o", "o", "p", " ", "l", "o", "o", "p">>,
               <<"l", "o", "o", "p", " ", "l", "o", "o", "p", " ", "l", "o", "o", "p", " ", "i", "t", "e", "r", "a", "t", "i", "o", "n">>,
               <<"a", " ", "l", "o", "o", "p", " ", "i", "n", " ", "a", " ", "l", "o", "o", "p", " ", "i", "n", " ", "a", " ", "l", "o", "o", "p", " ", "f", "o", "r", " ", "e", "x", "a", "m", "p", "l", "e">>}

FragmentsB == {<<"i", "t", "e", "r", "a", "t", "i", "o", "n">>,
               <<"S", "e", "c", "t", "i", "o", "n", " ", "5", " ", "i", "t", "e", "r", "a", "t", "i", "o", "n">>,
               <<"a", "n", " ", "e", "x", "a", "m", "p", "l", "e", " ", "o", "f", " ", "i", "t", "e", "r", "a", "t", "i", "o", "n">>,
               <<"S", "e", "c", "t", "i", "o", "n", " ", "5", " ", "a", "n", " ", "e", "x", "a", "m", "p", "l", "e", " ", "o", "f", " ", "i", "t", "e", "r", "a", "t", "i", "o", "n", " ", "s", "e", "e", " ", "F", "i", "g", "u", "r", "e", " ", "3">>,
               <<"i", "t", "e", "r", "a", "t", "i", "o", "n", " ", "m", "e", "a", "n", "s", " ", "r", "e", "p", "e", "a", "t", "i", "n", "g">>}

\* which of A and B stands at each place of the corpus
CorpusShapes == {<<"A", "B">>, <<"B", "A">>, <<"A", "B", "A">>, <<"A", "A", "B", "A">>}

WeightingCorpora ==
    {[c \in 1 .. Len(shape) |->
         [id |-> c, content |-> IF shape[c] = "A" THEN a ELSE b,
          filename |-> "notes.pdf", page |-> c]] :
       shape \in CorpusShapes, a \in FragmentsA, b \in FragmentsB}

(***************************************************************************)
(* One run of the ranking tail of searchRelevantChunks (lines 158-165) on  *)
(* scored fragments drawn from bounded sets: lists of equally scored       *)
(* fragments on two pages, and shorter lists with mixed scores (zero       *)
(* included) on three pages.  The id of a fragment is its place.           *)
(***************************************************************************)
MaxListed == 10
MaxMixed == 3

EqualPages == {1, 2}
MixedPages == {1, 2, 3}
MixedScores == {0, 1, 2}
RankKValues == {1, 3, 4, 5, 8}

ScoredLists ==
    UNION {{[c \in 1 .. n |-> [id |-> c, page |-> page[c], score |-> 1]] :
              page \in [1 .. n -> EqualPages]} : n \in 0 .. MaxListed}
    \cup
    UNION {{[c \in 1 .. n |-> [id |-> c, page |-> page[c], score |-> score[c]]] :
              page \in [1 .. n -> MixedPages], score \in [1 .. n -> MixedScores]} :
           n \in 0 .. MaxMixed}

RankIdle == rankIn = [scoredChunks |-> <<>>, topK |-> 0]
            /\ rankOut = [called |-> FALSE, ret |-> <<>>]

Rank ==
    /\ ~rankOut.called
    /\ rankOut' = [called |-> TRUE, ret |-> RankChunks(rankIn.scoredChunks, rankIn.topK)]
    /\ UNCHANGED rankIn

(***************************************************************************)
(* CHAT ROUTE: POST /api/chat/message (routes/chatRoutes.js 156-252).      *)
(* The reply of the external response generator is an opaque value.  The   *)
(* corpus the route reads is what an upload of a course document stored.   *)
(***************************************************************************)
MaxChats == 1

ChatDocument ==
    [filename |-> "loops.pdf",
     pages |-> <<<<"f", "o", "r", " ", "l", "o", "o", "p", " ", "i", "t", "e", "r", "a", "t", "i", "o", "n", " ">> \o Repeat("x", 40),
                 <<"p", "l", "o", "t", " ", "t", "h", "e", " ", "l", "o", "o", "p", " ">> \o Repeat("y", 40)>>]

\* the tables after no upload, and after the upload of ChatDocument to
\* course 1 with the extraction of the pages in failing having failed
ChatCorpora ==
    {[pdfs |-> <<>>, pdf_chunks |-> <<>>, nextPdfId |-> 1]}
    \cup {[pdfs |-> <<[id |-> 1, course_id |-> 1, filename |-> ChatDocument.filename,
                       doc |-> ChatDocument]>>,
           pdf_chunks |-> chunksWithMetadata(1, 1,
                              extractAndChunkPDF(ChatDocument, FALSE, failing).chunks),
           nextPdfId |-> 2] : failing \in {{}, {2}}}

ChatMessages == Range(Queries) \cup {<<>>}

NoChatFault == [courseError |-> FALSE, fetchError |-> FALSE, tutorError |-> FALSE,
                insertError |-> FALSE]

\* what can happen to one POST /message: the faults of the collaborators
ChatOutcomes ==
    {[o EXCEPT !.fetchError = f] :
        o \in {NoChatFault, [NoChatFault EXCEPT !.courseError = TRUE],
                [NoChatFault EXCEPT !.tutorError = TRUE],
                [NoChatFault EXCEPT !.insertError = TRUE]},
        f \in BOOLEAN}

NoChatResponse == [status |-> 0, response |-> "", relevant_materials |-> <<>>]

NoChatRequest == [course_id |-> 0, message |-> <<>>, o |-> NoChatFault]

ChatIdle == conversations = <<>> /\ analytics_events = <<>>
            /\ chatIn = NoChatRequest /\ chatOut = NoChatResponse

\* a getCoursePDFChunks that would rethrow the error of the query
getCoursePDFChunksRethrow(courseId, fetchError) ==
    IF fetchError THEN [threw |-> TRUE, data |-> <<>>]
    ELSE [threw |-> FALSE,
          data |-> LET rows == {i \in 1 .. Len(pdf_chunks) : pdf_chunks[i].course_id = courseId}
                   IN SelectSeqIdx([i \in 1 .. Len(pdf_chunks) |->
                                      [id |-> i, content |-> pdf_chunks[i].content,
                                       filename |-> pdf_chunks[i].filename,
                                       page |-> pdf_chunks[i].page]], rows)]

\* pdfEmbeddings.js lines 384-398: the rows of the course, or [] when the
\* query fails (the catch of line 394 returns []); the id of a row is its
\* place in the table
getCoursePDFChunks(courseId, fetchError) ==
    IF fetchError THEN [threw |-> FALSE, data |-> <<>>]
    ELSE [threw |-> FALSE,
          data |-> LET rows == {i \in 1 .. Len(pdf_chunks) : pdf_chunks[i].course_id = courseId}
                   IN SelectSeqIdx([i \in 1 .. Len(pdf_chunks) |->
                                      [id |-> i, content |-> pdf_chunks[i].content,
                                       filename |-> pdf_chunks[i].filename,
                                       page |-> pdf_chunks[i].page]], rows)]

\* lines 219-223: the reply of generateTutorResponse
tutorResponse == "reply"

\* lines 156-252.  The values of pdfChunks and relevantChunks are bound by
\* \E over a one-element set, which has them computed once.
Chat(course_id, message, o) ==
    /\ Len(conversations) < 2 * MaxChats
    /\ chatIn' = [course_id |-> course_id, message |-> message, o |-> o]
    /\ UNCHANGED analytics_events
    /\ IF message = <<>>
         THEN /\ chatOut' = [NoChatResponse EXCEPT !.status = 400]
              /\ UNCHANGED conversations
       ELSE IF o.courseError
         THEN /\ chatOut' = [NoChatResponse EXCEPT !.status = 404]
              /\ UNCHANGED conversations
       ELSE \E pdfChunks \in {getCoursePDFChunks(course_id, o.fetchError)} :
            IF pdfChunks.threw \/ o.tutorError
              THEN /\ chatOut' = [NoChatResponse EXCEPT !.status = 500]
                   /\ UNCHANGED conversations
              ELSE \E relevantChunks \in {searchRelevantChunks(message, pdfChunks.data, 8)} :
                   /\ conversations' =
                          IF o.insertError THEN conversations
                          ELSE conversations \o
                               <<[course_id |-> course_id, role |-> "user",
                                  content |-> message],
                                 [course_id |-> course_id, role |-> "assistant",
                                  content |-> tutorResponse]>>
                   /\ chatOut' =
                          [status |-> 200, response |-> tutorResponse,
                           relevant_materials |->
                               [c \in 1 .. Len(relevantChunks) |->
                                   [filename |-> relevantChunks[c].filename,
                                    page |-> relevantChunks[c].page]]]

(***************************************************************************)
(* THE KEYWORDS OF A QUESTION: lines 110-111 of searchRelevantChunks, on a *)
(* question of at most MaxQuestionWords pieces joined by one blank each.   *)
(* A piece that is itself a blank gives runs of blanks, and blanks at the  *)
(* ends of the question.                                                   *)
(***************************************************************************)
MaxQuestionWords == 3

QuestionWords == <<
    <<"w", "h", "i", "l", "e">>,
    <<"L", "o", "o", "p", "?">>,
    <<"l", "o", "o", "p", "s">>,
    <<"f", "o", "r">>,
    <<"i", "s">>,
    <<"i", "t", "'", "s">>,
    <<"I", "t", "e", "r", "a", "t", "i", "o", "n">>,
    <<" ">>
>>

Questions == TextsUpTo(QuestionWords, MaxQuestionWords)

Keywords ==
    /\ ~kwOut.called
    /\ \E queryKeywords \in {extractKeywords(toLowerCase(kwIn))} :
          kwOut' = [called |-> TRUE, queryKeywords |-> queryKeywords,
                    expandedKeywords |-> expandQueryKeywords(queryKeywords)]
    /\ UNCHANGED kwIn

(***************************************************************************)
(* TOPIC DISTRIBUTION: GET /api/analytics/course/:courseId/topics          *)
(* (routes/analyticsRoutes.js 165-216).  Table analytics_events is read,   *)
(* never written, by the routes at hand: its rows are drawn at the start.  *)
(* A NULL topic is the empty string.  The display_name of an entry, a      *)
(* label derived from its topic, is left out of the answer.                *)
(***************************************************************************)
MaxEvents == 2

NullColumn == ""
EventTopics == {"loops", "plotting", "general", NullColumn}
EventTypes == {"question", "feedback"}

EventLogs ==
    UNION {[1 .. n -> [course_id : Courses, event_type : EventTypes,
                       topic : EventTopics]] : n \in 0 .. MaxEvents}

\* topicExtraction.js 116-118: Object.keys(topicKeywords), in table order
getAllTopics == [t \in 1 .. Len(topicKeywords) |-> topicKeywords[t].topic]

NoStatsFault == [authError |-> FALSE, courseMissing |-> FALSE, eventsError |-> FALSE]
StatsOutcomes ==
    {NoStatsFault,
     [NoStatsFault EXCEPT !.authError = TRUE],
     [NoStatsFault EXCEPT !.courseMissing = TRUE],
     [NoStatsFault EXCEPT !.eventsError = TRUE]}

\* line 214: sort((a, b) => b.question_count - a.question_count), stable
RECURSIVE SortByCount(_)
SortByCount(seq) ==
    IF seq = <<>> THEN <<>>
    ELSE LET sorted == SortByCount(SubSeq(seq, 1, Len(seq) - 1))
             x == seq[Len(seq)]
             k == Cardinality({i \in 1 .. Len(sorted) :
                                  sorted[i].question_count >= x.question_count})
         IN SubSeq(sorted, 1, k) \o <<x>> \o SubSeq(sorted, k + 1, Len(sorted))

\* lines 184-202: the events of the course (null when the query failed, as
\* its error is not looked at) counted under the keys of topicCounts
TopicCounts(courseId, eventsError) ==
    LET events == IF eventsError THEN <<>>
                  ELSE SelectSeqIdx(analytics_events,
                           {i \in 1 .. Len(analytics_events) :
                               /\ analytics_events[i].course_id = courseId
                               /\ analytics_events[i].event_type = "question"})
        allTopics == getAllTopics
    IN [t \in 1 .. Len(allTopics) |->
           [topic |-> allTopics[t],
            question_count |->
                Cardinality({e \in 1 .. Len(events) :
                                /\ events[e].topic # NullColumn
                                /\ events[e].topic = allTopics[t]})]]

\* lines 165-221; the answer keeps the request it answers
TopicDistribution(courseId, o) ==
    statsOut' =
        IF o.authError
          THEN [status |-> 500, courseId |-> courseId, o |-> o, topicData |-> <<>>]
        ELSE IF o.courseMissing
          THEN [status |-> 404, courseId |-> courseId, o |-> o, topicData |-> <<>>]
        ELSE [status |-> 200, courseId |-> courseId, o |-> o,
              topicData |-> SortByCount(TopicCounts(courseId, o.eventsError))]

(***************************************************************************)
(* THE CHUNKING LOOP ON ITS OWN: lines 56-78 of extractAndChunkPDF on a    *)
(* pages array of one page whose text has no white space, of every length  *)
(* up to MaxPageLength.                                                    *)
(***************************************************************************)
MaxPageLength == 910

SolidPages == {<<[pageNumber |-> 1, text |-> Body(1, n)]>> : n \in 0 .. MaxPageLength}

ChunkLoop ==
    /\ ~pagesOut.called
    /\ pagesOut' = [called |-> TRUE, chunks |-> ChunkPages(pagesIn, "page.pdf")]
    /\ UNCHANGED pagesIn

(***************************************************************************)
(* THE TWO ROUTES STEP BY STEP.  Each await of a handler is one request to *)
(* the database, and the requests of an upload and of a delete that are in *)
(* progress together reach the database in any order.                      *)
(***************************************************************************)
\* a schema without the reference from pdf_chunks.pdf_id to pdfs(id)
ForeignKeyUnchecked(rows, id) == TRUE

\* unnamed/part_013 line 119: pdf_id UUID NOT NULL REFERENCES pdfs(id); an
\* insert of rows of document id is refused unless table pdfs holds the id
ForeignKeyHolds(rows, id) == \E p \in 1 .. Len(rows) : rows[p].id = id

NoRequest == [pc |-> "none"]

\* the uploads followed step by step
MaxRaced == 1

Answered(request) == request.pc \in {"none", "done"}

\* unnamed/part_002 lines 26-80: the checks, the storage upload and the
\* insert of the pdfs row
UploadRecord(course_id, doc, o) ==
    /\ Answered(inflight.upload)
    /\ nextPdfId <= MaxRaced
    /\ UNCHANGED pdf_chunks
    /\ IF ~o.owner \/ o.storageError \/ o.dbError
         THEN /\ response' = [status |-> IF ~o.owner THEN 403 ELSE 500, pdf |-> 0]
              /\ inflight' = [inflight EXCEPT !.upload = NoRequest]
              /\ UNCHANGED <<pdfs, nextPdfId>>
         ELSE /\ pdfs' = Append(pdfs, [id |-> nextPdfId, course_id |-> course_id,
                                       filename |-> doc.filename, doc |-> doc])
              /\ nextPdfId' = nextPdfId + 1
              /\ inflight' = [inflight EXCEPT !.upload =
                                 [pc |-> "recorded", id |-> nextPdfId,
                                  course_id |-> course_id, doc |-> doc, o |-> o]]
              /\ UNCHANGED response

\* unnamed/part_002 lines 82-96: extractAndChunkPDF, then the one insert of
\* storePDFChunks (pdfEmbeddings.js 368-372), whose error the inner catch
\* logs (line 89), then the 201
UploadStore ==
    /\ inflight.upload.pc = "recorded"
    /\ LET u == inflight.upload
           extracted == extractAndChunkPDF(u.doc, u.o.parseError, u.o.failing)
           rows == chunksWithMetadata(u.course_id, u.id, extracted.chunks)
           refused == Len(rows) > 0 /\ ~ForeignKeyHolds(pdfs, u.id)
           stored == ~extracted.threw /\ ~u.o.storeError /\ ~refused
       IN /\ pdf_chunks' = IF stored THEN pdf_chunks \o rows ELSE pdf_chunks
          /\ inflight' = [inflight EXCEPT !.upload =
                             [pc |-> "done", id |-> u.id, logged |-> ~stored,
                              refused |-> ~extracted.threw /\ refused]]
          /\ response' = [status |-> 201, pdf |-> u.id]
    /\ UNCHANGED <<pdfs, nextPdfId>>

\* unnamed/part_002 lines 125-150: the select of the pdfs row, the owner
\* check and the removal of the stored file
DeleteLookup(id, o) ==
    /\ Answered(inflight.delete)
    /\ UNCHANGED <<pdfs, pdf_chunks, nextPdfId>>
    /\ IF o.pdfError \/ ~\E i \in 1 .. Len(pdfs) : pdfs[i].id = id
         THEN /\ response' = [status |-> 404, pdf |-> 0]
              /\ inflight' = [inflight EXCEPT !.delete = NoRequest]
       ELSE IF ~o.owner
         THEN /\ response' = [status |-> 403, pdf |-> 0]
              /\ inflight' = [inflight EXCEPT !.delete = NoRequest]
       ELSE /\ inflight' = [inflight EXCEPT !.delete =
                                [pc |-> "found", id |-> id, o |-> o]]
            /\ UNCHANGED response

\* unnamed/part_002 lines 153-157: the delete of the chunks, whose error is
\* not read
DeleteChunks ==
    /\ inflight.delete.pc = "found"
    /\ LET d == inflight.delete
       IN /\ pdf_chunks' = IF d.o.chunkDeleteError THEN pdf_chunks
                           ELSE WithoutPdf(pdf_chunks, d.id, "pdf_id")
          /\ inflight' = [inflight EXCEPT !.delete = [d EXCEPT !.pc = "chunksDeleted"]]
    /\ UNCHANGED <<pdfs, response, nextPdfId>>

\* unnamed/part_002 lines 160-172: the delete of the pdfs row, which
\* cascades to the chunks that refer to it, and the answer
DeleteRecord ==
    /\ inflight.delete.pc = "chunksDeleted"
    /\ LET d == inflight.delete
       IN /\ IF d.o.deleteError
               THEN /\ response' = [status |-> 500, pdf |-> 0]
                    /\ UNCHANGED <<pdfs, pdf_chunks>>
               ELSE /\ pdfs' = WithoutPdf(pdfs, d.id, "id")
                    /\ pdf_chunks' = OnDeleteCascade(pdf_chunks, d.id)
                    /\ response' = [status |-> 200, pdf |-> d.id]
          /\ inflight' = [inflight EXCEPT !.delete =
                             [pc |-> "done", id |-> d.id, deleted |-> ~d.o.deleteError]]
    /\ UNCHANGED nextPdfId

(***************************************************************************)
(* The parts below are at rest in every specification that does not        *)
(* exercise them.                                                          *)
(***************************************************************************)
NoKeywords == [called |-> FALSE, queryKeywords |-> <<>>, expandedKeywords |-> <<>>]
KeywordIdle == kwIn = <<>> /\ kwOut = NoKeywords

NoChunks == [called |-> FALSE, chunks |-> <<>>]
PageIdle == pagesIn = <<>> /\ pagesOut = NoChunks

NoStats == [status |-> 0, courseId |-> 0, o |-> NoStatsFault, topicData |-> <<>>]
StatsIdle == statsOut = NoStats

RaceIdle == inflight = [upload |-> NoRequest, delete |-> NoRequest]

RestIdle == KeywordIdle /\ PageIdle /\ StatsIdle /\ RaceIdle

(***************************************************************************)
(* Specifications.  Each one exercises one part of the engine and leaves   *)
(* the variables of the other parts at rest.                               *)
(***************************************************************************)
InitCalc ==
    /\ calcIn \in CalcInputs
    /\ calcOut = NoResult
    /\ TrackerIdle /\ TopicIdle /\ IngestIdle /\ SearchIdle /\ RankIdle /\ ChatIdle
    /\ ChunkIdle /\ RestIdle
NextCalc == Calc /\ UNCHANGED <<trackerVars, topicVars, ingestVars, searchVars, rankVars, chatVars,
                       chunkVars, restVars>>
SpecCalc == InitCalc /\ [][NextCalc]_vars

InitTracker ==
    /\ record = NoRecord
    /\ reqs = [r \in Requests |-> [pc |-> "start", seen |-> NoRecord]]
    /\ now = 0
    /\ CalcIdle /\ TopicIdle /\ IngestIdle /\ SearchIdle /\ RankIdle /\ ChatIdle
    /\ ChunkIdle /\ RestIdle
NextTracker ==
    \/ \E r \in Requests :
          ReadMastery(r) /\ UNCHANGED <<calcVars, topicVars, ingestVars, searchVars, rankVars, chatVars,
                       chunkVars, restVars>>
    \/ \E r \in Requests :
          WriteMastery(r) /\ UNCHANGED <<calcVars, topicVars, ingestVars, searchVars, rankVars, chatVars,
                       chunkVars, restVars>>
    \/ Tick /\ UNCHANGED <<calcVars, topicVars, ingestVars, searchVars, rankVars, chatVars,
                       chunkVars, restVars>>
SpecTracker == InitTracker /\ [][NextTracker]_vars

InitTopic ==
    /\ topicIn \in TopicInputs
    /\ topicOut = [called |-> FALSE, ret |-> NullTopic]
    /\ CalcIdle /\ TrackerIdle /\ IngestIdle /\ SearchIdle /\ RankIdle /\ ChatIdle
    /\ ChunkIdle /\ RestIdle
NextTopic == Classify /\ UNCHANGED <<calcVars, trackerVars, ingestVars, searchVars, rankVars, chatVars,
                       chunkVars, restVars>>
SpecTopic == InitTopic /\ [][NextTopic]_vars

InitIngest ==
    /\ IngestIdle /\ CalcIdle /\ TrackerIdle /\ TopicIdle /\ SearchIdle /\ RankIdle /\ ChatIdle
    /\ ChunkIdle /\ RestIdle
NextIngest ==
    \/ \E course_id \in Courses, d \in 1 .. Len(Documents) :
          \E o \in UploadOutcomes(Documents[d]) :
              Upload(course_id, Documents[d], o)
              /\ UNCHANGED <<calcVars, trackerVars, topicVars, searchVars, rankVars, chatVars,
                       chunkVars, restVars>>
    \/ \E id \in 1 .. MaxUploads, o \in DeleteOutcomes :
          Delete(id, o)
          /\ UNCHANGED <<calcVars, trackerVars, topicVars, searchVars, rankVars, chatVars,
                       chunkVars, restVars>>
SpecIngest == InitIngest /\ [][NextIngest]_vars

InitSearch ==
    /\ searchIn \in [query : Range(Queries), allChunks : Corpora, topK : TopKValues]
    /\ searchOut = [called |-> FALSE, ret |-> <<>>]
    /\ CalcIdle /\ TrackerIdle /\ TopicIdle /\ IngestIdle /\ RankIdle /\ ChatIdle
    /\ ChunkIdle /\ RestIdle
NextSearch == Search /\ UNCHANGED <<calcVars, trackerVars, topicVars, ingestVars, rankVars, chatVars,
                       chunkVars, restVars>>
SpecSearch == InitSearch /\ [][NextSearch]_vars

InitWeighting ==
    /\ searchIn \in [query : LoopQueries, allChunks : WeightingCorpora, topK : {8}]
    /\ searchOut = [called |-> FALSE, ret |-> <<>>]
    /\ CalcIdle /\ TrackerIdle /\ TopicIdle /\ IngestIdle /\ RankIdle /\ ChatIdle
    /\ ChunkIdle /\ RestIdle
SpecWeighting == InitWeighting /\ [][NextSearch]_vars

InitMarkers ==
    /\ searchIn \in [query : MarkerQueries, allChunks : MarkerCorpora, topK : {8}]
    /\ searchOut = [called |-> FALSE, ret |-> <<>>]
    /\ CalcIdle /\ TrackerIdle /\ TopicIdle /\ IngestIdle /\ RankIdle /\ ChatIdle
    /\ ChunkIdle /\ RestIdle
SpecMarkers == InitMarkers /\ [][NextSearch]_vars

InitRank ==
    /\ rankIn \in [scoredChunks : ScoredLists, topK : RankKValues]
    /\ rankOut = [called |-> FALSE, ret |-> <<>>]
    /\ CalcIdle /\ TrackerIdle /\ TopicIdle /\ IngestIdle /\ SearchIdle /\ ChatIdle
    /\ ChunkIdle /\ RestIdle
NextRank ==
    Rank /\ UNCHANGED <<calcVars, trackerVars, topicVars, ingestVars, searchVars, chatVars,
                       chunkVars, restVars>>
SpecRank == InitRank /\ [][NextRank]_vars

InitChat ==
    /\ \E corpus \in ChatCorpora :
          /\ pdfs = corpus.pdfs
          /\ pdf_chunks = corpus.pdf_chunks
          /\ nextPdfId = corpus.nextPdfId
    /\ response = NoResponse
    /\ ChatIdle
    /\ CalcIdle /\ TrackerIdle /\ TopicIdle /\ SearchIdle /\ RankIdle
    /\ ChunkIdle /\ RestIdle
NextChat ==
    \E course_id \in Courses, message \in ChatMessages, o \in ChatOutcomes :
        Chat(course_id, message, o)
        /\ UNCHANGED <<calcVars, trackerVars, topicVars, ingestVars, searchVars, rankVars,
                           chunkVars, restVars>>
SpecChat == InitChat /\ [][NextChat]_vars

InitChunker ==
    /\ chunkIn \in ChunkerInputs
    /\ chunkOut = NoChunkerResult
    /\ CalcIdle /\ TrackerIdle /\ TopicIdle /\ IngestIdle /\ SearchIdle
    /\ RankIdle /\ ChatIdle /\ RestIdle
NextChunker ==
    Extract /\ UNCHANGED <<calcVars, trackerVars, topicVars, ingestVars, searchVars,
                           rankVars, chatVars, restVars>>
SpecChunker == InitChunker /\ [][NextChunker]_vars

InitKeywords ==
    /\ kwIn \in Questions
    /\ kwOut = NoKeywords
    /\ CalcIdle /\ TrackerIdle /\ TopicIdle /\ IngestIdle /\ SearchIdle
    /\ RankIdle /\ ChatIdle /\ ChunkIdle /\ PageIdle /\ StatsIdle /\ RaceIdle
NextKeywords ==
    Keywords /\ UNCHANGED <<calcVars, trackerVars, topicVars, ingestVars, searchVars,
                            rankVars, chatVars, chunkVars, pageVars, statsOut, inflight>>
SpecKeywords == InitKeywords /\ [][NextKeywords]_vars

InitStats ==
    /\ analytics_events \in EventLogs
    /\ statsOut = NoStats
    /\ conversations = <<>> /\ chatIn = NoChatRequest /\ chatOut = NoChatResponse
    /\ CalcIdle /\ TrackerIdle /\ TopicIdle /\ IngestIdle /\ SearchIdle
    /\ RankIdle /\ ChunkIdle /\ KeywordIdle /\ PageIdle /\ RaceIdle
NextStats ==
    \E courseId \in Courses, o \in StatsOutcomes :
        TopicDistribution(courseId, o)
        /\ UNCHANGED <<calcVars, trackerVars, topicVars, ingestVars, searchVars,
                       rankVars, chatVars, chunkVars, keywordVars, pageVars, inflight>>
SpecStats == InitStats /\ [][NextStats]_vars

InitPages ==
    /\ pagesIn \in SolidPages
    /\ pagesOut = NoChunks
    /\ CalcIdle /\ TrackerIdle /\ TopicIdle /\ IngestIdle /\ SearchIdle
    /\ RankIdle /\ ChatIdle /\ ChunkIdle /\ KeywordIdle /\ StatsIdle /\ RaceIdle
NextPages ==
    ChunkLoop /\ UNCHANGED <<calcVars, trackerVars, topicVars, ingestVars, searchVars,
                             rankVars, chatVars, chunkVars, keywordVars, statsOut,
                             inflight>>
SpecPages == InitPages /\ [][NextPages]_vars

InitRace ==
    /\ IngestIdle /\ CalcIdle /\ TrackerIdle /\ TopicIdle /\ SearchIdle /\ RankIdle /\ ChatIdle
    /\ ChunkIdle /\ RestIdle
NextRace ==
    \/ \E course_id \in Courses, d \in 1 .. Len(Documents) :
          \E o \in UploadOutcomes(Documents[d]) :
              UploadRecord(course_id, Documents[d], o)
              /\ UNCHANGED <<calcVars, trackerVars, topicVars, searchVars, rankVars, chatVars,
                       chunkVars, keywordVars, pageVars, statsOut>>
    \/ UploadStore
       /\ UNCHANGED <<calcVars, trackerVars, topicVars, searchVars, rankVars, chatVars,
                chunkVars, keywordVars, pageVars, statsOut>>
    \/ \E id \in 1 .. MaxRaced, o \in DeleteOutcomes :
          DeleteLookup(id, o)
          /\ UNCHANGED <<calcVars, trackerVars, topicVars, searchVars, rankVars, chatVars,
                   chunkVars, keywordVars, pageVars, statsOut>>
    \/ DeleteChunks
       /\ UNCHANGED <<calcVars, trackerVars, topicVars, searchVars, rankVars, chatVars,
                chunkVars, keywordVars, pageVars, statsOut>>
    \/ DeleteRecord
       /\ UNCHANGED <<calcVars, trackerVars, topicVars, searchVars, rankVars, chatVars,
                chunkVars, keywordVars, pageVars, statsOut>>
SpecRace == InitRace /\ [][NextRace]_vars

(***************************************************************************)
(* Claims about the mastery curve.                                         *)
(***************************************************************************)
CalcDays == daysSinceLastPractice(calcIn.lastPracticed, calcIn.nowTick)

\* C1: whatever the question count (>= 0) and whatever last_practiced is
\* (absent, past or future), the returned mastery level lies in 0..100.
C1_MasteryInRange == calcOut.set => calcOut.v \in 0 .. 100

\* C1 witness: a call with a last_practiced in the future has returned, and
\* another shape of the same case, a decayed call, is covered by C3's witness.
C1_Witness ==
    /\ calcOut.set
    /\ calcIn.lastPracticed.set
    /\ calcIn.lastPracticed.at > calcIn.nowTick
    /\ calcIn.questionsAsked = MaxQuestions

\* C2: after n requests have been processed the row's questions_asked is n.
C2_NoLostIncrement == record.questions_asked = Cardinality(Processed)

\* C3 as stated: the 7th question after 20 idle days, previous mastery 48,
\* yields 56.
C3_Scenario ==
    /\ calcOut.set
    /\ calcIn.questionsAsked = 7
    /\ calcIn.currentMastery = 48
    /\ calcIn.lastPracticed.set
    /\ CalcDays = 20

C3_SupersedesDecay == C3_Scenario => calcOut.v = 56

\* C3 amended: in that scenario the decay factor 0.88 is applied to the raw
\* growth 56 of the new count, and the result is 49.
C3_DecaysNewGrowth == C3_Scenario => calcOut.v = 49

C3_Witness == C3_Scenario /\ calcIn.lastPracticed.at = calcIn.nowTick - 20 * TicksPerDay

\* C4: with no idle decay the n-th question yields min(40, 8n) up to n = 5,
\* 40 + 8(n - 5) for n in 6..10 and min(95, 80 + 2(n - 10)) from n = 11 on,
\* which never exceeds 95.
C4_LearningCurve ==
    (calcOut.set /\ CalcDays <= 7) =>
        LET n == calcIn.questionsAsked
        IN /\ n <= 5 => calcOut.v = Min(40, 8 * n)
           /\ (6 <= n /\ n <= 10) => calcOut.v = 40 + 8 * (n - 5)
           /\ n >= 11 => calcOut.v = Min(95, 80 + 2 * (n - 10))
           /\ calcOut.v <= 95
           /\ n \in 1 .. 6 => calcOut.v = <<8, 16, 24, 32, 40, 48>>[n]

\* C4 witness: a same-day call past the point where the cap of 95 binds.
C4_Witness ==
    /\ calcOut.set
    /\ CalcDays = 0
    /\ calcIn.lastPracticed.set
    /\ calcIn.questionsAsked = 18
    /\ calcOut.v = 95

\* C25 as stated: for a fixed question count, no longer idle period (in
\* whole days) yields a higher mastery than the idle period of the call.
C25_NonIncreasingInIdleDays ==
    (calcOut.set /\ calcIn.lastPracticed.set /\ CalcDays >= 0) =>
        \A longer \in CalcDays .. MaxIdleDays :
            calculateMasteryLevel(calcIn.questionsAsked,
                                  Date(calcIn.nowTick - longer * TicksPerDay),
                                  calcIn.currentMastery, calcIn.nowTick)
                <= calcOut.v

\* C28: the value returned does not depend on the currentMastery argument:
\* the same question count and last_practiced at the same instant give the
\* same value for every currentMastery.
C28_IgnoresCurrentMastery ==
    calcOut.set =>
        \A other \in CurrentMasteryValues :
            calculateMasteryLevel(calcIn.questionsAsked, calcIn.lastPracticed,
                                  other, calcIn.nowTick) = calcOut.v

\* C28 witness: a call past the tenth question, in the decay zone, with a
\* currentMastery of 100 has returned a value that is not 100.
C28_Witness ==
    /\ calcOut.set
    /\ calcIn.currentMastery = 100
    /\ calcIn.questionsAsked = 12
    /\ CalcDays = 10
    /\ calcOut.v = 80

(***************************************************************************)
(* Claims about the topic classifier.                                      *)
(***************************************************************************)
NoTopicScores(message) ==
    \A t \in 1 .. Len(topicKeywords) : TopicScore(toLowerCase(message.s), t) = 0

\* C10 as stated: for every input, the empty string and non-strings included,
\* extractTopic returns one of the 14 topics or 'general', never null, and
\* 'general' exactly when no topic scores above zero.
C10_NeverNull ==
    topicOut.called =>
        /\ ~topicOut.ret.isNull
        /\ topicOut.ret.topic \in TopicNames \cup {"general"}
        /\ topicOut.ret.topic = "general" <=> NoTopicScores(topicIn)

\* C10 amended: for every non-empty string extractTopic returns one of the 14
\* topics or 'general', and 'general' exactly when no topic scores above
\* zero; for the empty string and for a non-string it returns null.
C10_NullOnlyForNoString ==
    topicOut.called =>
        IF topicIn.kind = "string" /\ topicIn.s # <<>>
          THEN /\ ~topicOut.ret.isNull
               /\ topicOut.ret.topic \in TopicNames \cup {"general"}
               /\ topicOut.ret.topic = "general" <=> NoTopicScores(topicIn)
          ELSE topicOut.ret.isNull

\* C10 witness: an unclassifiable, non-empty question has been answered
\* 'general'.
C10_Witness ==
    /\ topicOut.called
    /\ topicIn.kind = "string"
    /\ Len(topicIn.s) > 1
    /\ NoTopicScores(topicIn)
    /\ topicOut.ret = TopicResult("general")

\* C13: for a message in which some topic scores above zero, the topic
\* returned has the highest sum of occurrences times keyword length, and of
\* the topics with that sum it is the one declared first in the table.
C13_HighestFirstDeclared ==
    (topicOut.called /\ topicIn.kind = "string" /\ ~NoTopicScores(topicIn))
        => LET lowerMessage == toLowerCase(topicIn.s)
               sums == [t \in 1 .. Len(topicKeywords) |-> TopicScore(lowerMessage, t)]
           IN \E t \in 1 .. Len(topicKeywords) :
                 /\ topicOut.ret = TopicResult(topicKeywords[t].topic)
                 /\ sums[t] > 0
                 /\ \A u \in 1 .. Len(topicKeywords) : sums[u] <= sums[t]
                 /\ \A u \in 1 .. t - 1 : sums[u] < sums[t]

\* C13 witness: "plot size" scores 4 for plotting and 4 for arrays_matrices;
\* the answer is arrays_matrices, declared before plotting, although its
\* keyword comes second in the message.
C13_Witness ==
    /\ topicOut.called
    /\ topicIn = StringValue(<<"p", "l", "o", "t", " ", "s", "i", "z", "e">>)
    /\ TopicScore(topicIn.s, 2) = 4
    /\ TopicScore(topicIn.s, 6) = 4
    /\ topicOut.ret = TopicResult("arrays_matrices")

(***************************************************************************)
(* Claims about ingestion.                                                 *)
(***************************************************************************)
MarkerChars == LowerSet

\* C6: whatever the per-page extraction did, the content of every stored
\* fragment comes from the one page named in its page field: it holds no
\* character of another page of the document.
C6_SinglePage ==
    \A i \in 1 .. Len(pdf_chunks) :
        \A j \in 1 .. Len(pdf_chunks[i].content) :
            pdf_chunks[i].content[j] \in MarkerChars
                => pdf_chunks[i].content[j] = Marker(pdf_chunks[i].page)

\* C7: after an upload the corpus holds, for each stored document, either
\* the fragments of all its pages (what an extraction without a failing page
\* yields) or no fragment of it.
C7_AllOrNothing ==
    \A p \in 1 .. Len(pdfs) :
        \/ ChunksOf(pdfs[p].id) = <<>>
        \/ ChunksOf(pdfs[p].id) = chunksWithMetadata(pdfs[p].course_id, pdfs[p].id,
                                      extractAndChunkPDF(pdfs[p].doc, FALSE, {}).chunks)

\* the fragments table pdf_chunks holds for document id after a step
NewChunksOf(id) ==
    SelectSeqIdx(pdf_chunks', {i \in 1 .. Len(pdf_chunks') : pdf_chunks'[i].pdf_id = id})

\* C16: an upload whose extraction throws, or whose insert of the fragments
\* fails, answers 201 with the new pdfs row, stores no fragment for that
\* document and leaves table pdf_chunks as it was.
C16_ExtractionFailureNonFatal ==
    [][\A course_id \in Courses, d \in 1 .. Len(Documents) :
         \A o \in UploadOutcomes(Documents[d]) :
           (/\ o.owner /\ ~o.storageError /\ ~o.dbError
            /\ (o.parseError \/ o.storeError)
            /\ Upload(course_id, Documents[d], o))
           => /\ response' = [status |-> 201, pdf |-> nextPdfId]
              /\ \E p \in 1 .. Len(pdfs') : /\ pdfs'[p].id = nextPdfId
                                            /\ pdfs'[p].filename = Documents[d].filename
              /\ NewChunksOf(nextPdfId) = <<>>
              /\ pdf_chunks' = pdf_chunks
      ]_vars

\* C16 witness: the corpus holds fragments of an earlier document, and the
\* last upload, of a document with extractable pages, answered 201 and left
\* no fragment of its own.
C16_Witness ==
    /\ response.status = 201
    /\ ChunksOf(response.pdf) = <<>>
    /\ pdf_chunks # <<>>
    /\ \E p \in 1 .. Len(pdfs) : /\ pdfs[p].id = response.pdf
                                 /\ pdfs[p].filename = "notes.pdf"

\* C19: a document whose DELETE answered success (its id was given out and
\* its pdfs row is gone) has no fragment left in table pdf_chunks.
C19_DeletedDocumentHasNoFragments ==
    /\ \A id \in 1 .. nextPdfId - 1 :
          (~\E p \in 1 .. Len(pdfs) : pdfs[p].id = id) => ChunksOf(id) = <<>>
    /\ response.status = 200 => ChunksOf(response.pdf) = <<>>

\* C19 witness: the first document has been deleted with success while the
\* fragments of the second one are still in the corpus.
C19_Witness ==
    /\ response = [status |-> 200, pdf |-> 1]
    /\ Len(pdfs) = 1
    /\ ChunksOf(pdfs[1].id) # <<>>

(***************************************************************************)
(* Claims about the chunker.                                               *)
(***************************************************************************)
\* C14: every fragment extractAndChunkPDF emits for a document of N pages
\* has a page number in 1 .. N, whichever pages failed to extract.
C14_PageWithinDocument ==
    chunkOut.called =>
        \A r \in 1 .. Len(chunkOut.chunks) :
            /\ chunkOut.chunks[r].page >= 1
            /\ chunkOut.chunks[r].page <= Len(chunkIn.doc.pages)

\* C14 witness: a two-page document has yielded a fragment of its first
\* page and a fragment of its last page.
C14_Witness ==
    /\ chunkOut.called
    /\ Len(chunkIn.doc.pages) = 2
    /\ \E i, j \in 1 .. Len(chunkOut.chunks) :
          chunkOut.chunks[i].page = 1 /\ chunkOut.chunks[j].page = 2

\* the offsets at which the chunker opens a window on a text
WindowOffsets(text) ==
    {k * (chunkSize - overlap) : k \in 0 .. (Max(Len(text), 1) - 1) \div (chunkSize - overlap)}
    \cap 0 .. (Len(text) - 1)

\* the page texts the chunker is handed in the call (line 61)
ChunkerPages == ExtractPages(chunkIn.doc, 1, <<>>, chunkIn.failing)

\* C15: the fragments the chunker emits have a trimmed content of more than
\* 50 and at most 500 characters, and there is exactly one of them for each
\* window of a page text whose trimmed length exceeds 50: shorter windows,
\* and with them empty and blank page texts, yield nothing.
C15_FragmentLengths ==
    (chunkOut.called /\ ~chunkOut.threw) =>
        LET pages == ChunkerPages
            new == chunkOut.chunks
            kept == UNION {{<<p, i>> : i \in
                              {w \in WindowOffsets(pages[p].text) :
                                  Len(Trim(Slice(pages[p].text, w, w + chunkSize))) > 50}} :
                           p \in 1 .. Len(pages)}
        IN /\ \A r \in 1 .. Len(new) :
                 /\ Len(new[r].content) > 50
                 /\ Len(new[r].content) <= 500
                 /\ new[r].content = Trim(new[r].content)
                 /\ \E w \in kept : /\ pages[w[1]].pageNumber = new[r].page
                                     /\ w[2] = new[r].start_char
           /\ Len(new) = Cardinality(kept)
           /\ \A p \in 1 .. Len(pages) :
                 Trim(pages[p].text) = <<>>
                     => \A r \in 1 .. Len(new) : new[r].page # pages[p].pageNumber

\* C15 witness: a document whose first page has exactly 50 characters and
\* whose second page ends in a window of 51 has been chunked whole: nothing
\* of page 1, and two fragments of page 2, the second of 51 characters.
C15_Witness ==
    /\ chunkOut.called /\ chunkIn.failing = {}
    /\ Len(chunkIn.doc.pages) = 2
    /\ Len(chunkIn.doc.pages[1]) = 50
    /\ Len(chunkOut.chunks) = 2
    /\ chunkOut.chunks[1].page = 2 /\ chunkOut.chunks[2].page = 2
    /\ Len(chunkOut.chunks[2].content) = 51

\* C30: of a page text longer than 50 characters and without white space,
\* every character position lies inside a fragment the loop emitted for
\* that page.
C30_EveryPositionCovered ==
    pagesOut.called =>
        \A p \in 1 .. Len(pagesIn) :
            (/\ Len(pagesIn[p].text) > 50
             /\ \A k \in 1 .. Len(pagesIn[p].text) : ~IsSpace(pagesIn[p].text[k]))
            => \A pos \in 0 .. Len(pagesIn[p].text) - 1 :
                   \E r \in 1 .. Len(pagesOut.chunks) :
                       /\ pagesOut.chunks[r].page = pagesIn[p].pageNumber
                       /\ pagesOut.chunks[r].start_char <= pos
                       /\ pos < pagesOut.chunks[r].start_char
                                  + Len(pagesOut.chunks[r].content)

\* C30 witness: a page of 850 characters has been chunked; its third window,
\* of exactly 50 characters, was dropped and two fragments were emitted.
C30_Witness ==
    /\ pagesOut.called
    /\ Len(pagesIn) = 1 /\ Len(pagesIn[1].text) = 850
    /\ Len(pagesOut.chunks) = 2
    /\ pagesOut.chunks[2].start_char = 400
    /\ Len(pagesOut.chunks[2].content) = 450

(***************************************************************************)
(* Claims about the ranking tail of the search.                            *)
(***************************************************************************)
RankedPages(p) ==
    {i \in 1 .. Len(rankIn.scoredChunks) : rankIn.scoredChunks[i].page = p}

\* ten fragments of one positive score, eight on page 1 and two on page 2
EightAndTwo ==
    /\ Len(rankIn.scoredChunks) = 10
    /\ \A i \in 1 .. 10 : rankIn.scoredChunks[i].score = rankIn.scoredChunks[1].score
    /\ rankIn.scoredChunks[1].score > 0
    /\ Cardinality(RankedPages(1)) = 8
    /\ Cardinality(RankedPages(2)) = 2

\* C11: ten equally and positively scored fragments, eight on page 1 and two
\* on page 2, in whatever order, ranked with K = 4 give four fragments, both
\* page-2 fragments among them.
C11_BothPageTwoKept ==
    (rankOut.called /\ EightAndTwo /\ rankIn.topK = 4)
        => /\ Len(rankOut.ret) = 4
           /\ \A i \in RankedPages(2) :
                 \E r \in 1 .. Len(rankOut.ret) : rankOut.ret[r].id = i

\* C11 witness: the two page-2 fragments come last in the corpus, behind the
\* eight of page 1, and the ranking has answered with them in places 3 and 4.
C11_Witness ==
    /\ rankOut.called /\ EightAndTwo /\ rankIn.topK = 4
    /\ RankedPages(2) = {9, 10}
    /\ Len(rankOut.ret) = 4
    /\ rankOut.ret[3].id = 9 /\ rankOut.ret[4].id = 10

\* the places of the sorted list a walk without early exit admits: a place
\* is admitted iff its page has fewer than 2 admissions so far or fewer than
\* K / 2 places have been admitted so far
RECURSIVE AdmittedUpTo(_, _, _)
AdmittedUpTo(sorted, n, topK) ==
    IF n = 0 THEN {}
    ELSE LET before == AdmittedUpTo(sorted, n - 1, topK)
             samePage == {j \in before : sorted[j].page = sorted[n].page}
         IN IF Cardinality(samePage) < 2 \/ 2 * Cardinality(before) < topK
              THEN before \cup {n} ELSE before

\* C12: the ranking returns exactly the first K admitted fragments of the
\* sorted list of positive scores, in the order of that list; it has at most
\* K elements and is not empty unless the sorted list is.
C12_GreedyFirstK ==
    rankOut.called =>
        LET sorted == PositiveScores(SortByScore(rankIn.scoredChunks))
            admitted == SelectSeqIdx(sorted, AdmittedUpTo(sorted, Len(sorted), rankIn.topK))
        IN /\ rankOut.ret = SubSeq(admitted, 1, Min(rankIn.topK, Len(admitted)))
           /\ Len(rankOut.ret) <= rankIn.topK
           /\ sorted # <<>> => rankOut.ret # <<>>

\* C12 witness: with K = 8 a third and a fourth fragment of one page were
\* admitted on the K / 2 clause, a fifth was turned away, and a fragment of
\* another page behind it was admitted.
C12_Witness ==
    /\ rankOut.called
    /\ rankIn.topK = 8
    /\ Len(rankIn.scoredChunks) = 10
    /\ \A i \in 1 .. 9 : rankIn.scoredChunks[i].page = 1
    /\ rankIn.scoredChunks[10].page = 2
    /\ Len(rankOut.ret) = 5
    /\ rankOut.ret[4].id = 4
    /\ rankOut.ret[5].id = 10

\* the returned fragments of page p
ReturnedOfPage(p) == {r \in 1 .. Len(rankOut.ret) : rankOut.ret[r].page = p}

\* C26: in the list returned for a requested count K no page has more than
\* max(2, ceil(K / 2)) fragments.
C26_PerPageCap ==
    rankOut.called =>
        \A p \in EqualPages \cup MixedPages :
            Cardinality(ReturnedOfPage(p)) <= Max(2, (rankIn.topK + 1) \div 2)

\* C26 witness: with K = 5 a page with five positively scored fragments has
\* exactly three of them in the answer, and the answer is full.
C26_Witness ==
    /\ rankOut.called /\ rankIn.topK = 5
    /\ Len(rankOut.ret) = 5
    /\ \E p \in EqualPages :
          /\ Cardinality(ReturnedOfPage(p)) = 3
          /\ Cardinality({i \in RankedPages(p) : rankIn.scoredChunks[i].score > 0}) >= 5

\* the stored text holds a numbered heading: a dotted number, white space
\* and a capital
HasNumberedHeading(text) ==
    \E i \in 1 .. Len(text) : BoundaryAt(text, i) /\ NumberedHeadingAt(text, i)

\* the stored text holds "Section N" or "Chapter N", in any case
HasSectionOrChapter(text) ==
    \E i \in 1 .. Len(text) :
        /\ BoundaryAt(text, i)
        /\ LitNumberAt(text, i, SectionWord) \/ LitNumberAt(text, i, ChapterWord)

\* C21 as stated: the score the call gives a fragment whose stored text
\* holds a numbered heading or a Section / Chapter pattern includes the
\* structural bonus of 50.
C21_StructuralBonus ==
    searchOut.called =>
        \A c \in 1 .. Len(searchIn.allChunks) :
            (\/ HasNumberedHeading(searchIn.allChunks[c].content)
             \/ HasSectionOrChapter(searchIn.allChunks[c].content))
                => ScoreAll(searchIn.query, searchIn.allChunks)[c].score
                       >= 50 * 10 * ScoreScale

RecognisedTopics == TopicNames \cup {"general"}

\* the question events of the course of the last request, by topic
QuestionEvents(topic) ==
    {e \in 1 .. Len(analytics_events) :
        /\ analytics_events[e].course_id = statsOut.courseId
        /\ analytics_events[e].event_type = "question"
        /\ analytics_events[e].topic = topic}

\* C24 as stated: the answer has a count for each of the 15 recognised
\* topics, 'general' among them, each count is the number of question events
\* of the course with that topic, and the counts add up to the number of
\* question events whose topic is one of the 15.
C24_FifteenTopicsCounted ==
    (statsOut.status = 200 /\ ~statsOut.o.eventsError) =>
        /\ \A topic \in RecognisedTopics :
              \E d \in 1 .. Len(statsOut.topicData) :
                  /\ statsOut.topicData[d].topic = topic
                  /\ statsOut.topicData[d].question_count
                         = Cardinality(QuestionEvents(topic))
        /\ SumSeq([d \in 1 .. Len(statsOut.topicData) |->
                      statsOut.topicData[d].question_count])
              = Cardinality(UNION {QuestionEvents(topic) : topic \in RecognisedTopics})

(***************************************************************************)
(* Claims about the keywords of a question.                                *)
(***************************************************************************)
\* the places of a question where a run of word characters starts
TokenStarts(s) == {i \in 1 .. Len(s) : WordAt(s, i) /\ ~WordAt(s, i - 1)}

\* the run of word characters that starts at place i, in lower case
TokenFrom(s, i) ==
    LET last == CHOOSE j \in i .. Len(s) :
                    /\ \A k \in i .. j : WordAt(s, k)
                    /\ ~WordAt(s, j + 1)
    IN toLowerCase(SubSeq(s, i, last))

\* the first place of a question where token w starts
FirstStart(s, w) ==
    CHOOSE i \in TokenStarts(s) :
        /\ TokenFrom(s, i) = w
        /\ \A j \in TokenStarts(s) : TokenFrom(s, j) = w => i <= j

\* C22: the primary keywords of a question are its runs of word characters,
\* in lower case, that are longer than 2 and are no stop word: each of them
\* once, in the order of their first occurrence, and nothing else.
C22_KeywordsOfQuestion ==
    kwOut.called =>
        LET out == kwOut.queryKeywords
            wanted == {TokenFrom(kwIn, i) : i \in TokenStarts(kwIn)}
        IN /\ \A a, b \in 1 .. Len(out) : a # b => out[a] # out[b]
           /\ \A k \in 1 .. Len(out) : Len(out[k]) > 2 /\ out[k] \notin stopWords
           /\ Range(out) = {w \in wanted : Len(w) > 2 /\ w \notin stopWords}
           /\ \A a, b \in 1 .. Len(out) :
                 a < b => FirstStart(kwIn, out[a]) < FirstStart(kwIn, out[b])

\* C22 witness: the question "Loop? for Loop?", with capitals, punctuation,
\* a stop word of three letters and a repeated word, has yielded the one
\* keyword "loop".
C22_Witness ==
    /\ kwOut.called
    /\ kwIn = <<"L", "o", "o", "p", "?", " ", "f", "o", "r", " ", "L", "o", "o", "p", "?">>
    /\ kwOut.queryKeywords = <<<<"l", "o", "o", "p">>>>

\* C29 as stated: no keyword is both a primary and an expanded keyword.
C29_PrimaryExpandedDisjoint ==
    kwOut.called =>
        Range(kwOut.queryKeywords) \cap Range(kwOut.expandedKeywords) = {}

(***************************************************************************)
(* Claims about the relevance scorer.                                      *)
(***************************************************************************)
SearchKeywords == extractKeywords(toLowerCase(searchIn.query))
SearchExpanded == expandQueryKeywords(SearchKeywords)

\* no fragment of the corpus contains a primary or an expanded keyword
NoKeywordMatch ==
    \A c \in 1 .. Len(searchIn.allChunks) :
        \A keyword \in Range(SearchKeywords) \cup Range(SearchExpanded) :
            ~WordTest(searchIn.allChunks[c].content, keyword)

\* C5: the search returns the empty list whenever the corpus is empty or no
\* fragment contains a primary or an expanded keyword of the query.
C5_EmptyWithoutMatch ==
    (searchOut.called /\ (searchIn.allChunks = <<>> \/ NoKeywordMatch))
        => searchOut.ret = <<>>

\* C8: every returned fragment scores above zero, the list is in
\* non-increasing order of score, and fragments of equal score keep their
\* corpus order.
C8_PositiveSortedStable ==
    searchOut.called =>
        /\ \A i \in 1 .. Len(searchOut.ret) : searchOut.ret[i].score > 0
        /\ \A i, j \in 1 .. Len(searchOut.ret) :
              i < j => /\ searchOut.ret[i].score >= searchOut.ret[j].score
                       /\ searchOut.ret[i].score = searchOut.ret[j].score
                             => searchOut.ret[i].id < searchOut.ret[j].id

\* C8 witness: a result with a strict step followed by a tie has been returned.
C8_Witness ==
    /\ searchOut.called
    /\ Len(searchOut.ret) >= 3
    /\ searchOut.ret[1].score > searchOut.ret[2].score
    /\ searchOut.ret[2].score = searchOut.ret[3].score

\* the sum of (20 - d) * 2 over the pairs of distinct keywords of the list and
\* the pairs of their word positions in text that lie d < 20 words apart
PairBonus(text, keywords) ==
    LET words == split(toLowerCase(text))
        at == [k \in 1 .. Len(keywords) |->
                  {idx \in 0 .. Len(words) - 1 : Includes(words[idx + 1], keywords[k])}]
        hits == UNION {{<<i, j, a, b>> : a \in at[i], b \in at[j]} :
                          <<i, j>> \in {p \in (DOMAIN at) \X (DOMAIN at) : p[1] < p[2]}}
        apart(d) == {h \in hits : h[3] - h[4] = d \/ h[4] - h[3] = d}
    IN SumSeq([d1 \in 1 .. 20 |-> (20 - (d1 - 1)) * 2 * Cardinality(apart(d1 - 1))])

\* the score of a returned fragment when its proximity part is bonus
ScoreWithBonus(fragment, bonus) ==
    LET chunkText == toLowerCase(fragment.content)
        score == KeywordScore(chunkText, SearchKeywords, SearchExpanded,
                              searchIn.allChunks)
                 + detectSemanticMarkers(chunkText, SearchKeywords) * ScoreScale
                 + bonus * ScoreScale
    IN IF isContextRich(chunkText) THEN score * 13 ELSE score * 10

\* C9 as stated: the proximity part of a score runs over the pairs of distinct
\* keywords of the primary and the expanded set together.
C9_ProximityOverUnion ==
    searchOut.called =>
        \A i \in 1 .. Len(searchOut.ret) :
            searchOut.ret[i].score =
                ScoreWithBonus(searchOut.ret[i],
                    PairBonus(searchOut.ret[i].content, SearchKeywords \o SearchExpanded))

\* C9 amended: the proximity part runs over the pairs of distinct primary
\* keywords only; an expanded keyword adds nothing to it.
C9_ProximityOverPrimary ==
    searchOut.called =>
        \A i \in 1 .. Len(searchOut.ret) :
            searchOut.ret[i].score =
                ScoreWithBonus(searchOut.ret[i],
                    PairBonus(searchOut.ret[i].content, SearchKeywords))

\* C9 witness: a result holds a fragment with two primary keywords close
\* together and a fragment where a primary and an expanded keyword are close.
C9_Witness ==
    /\ searchOut.called
    /\ \E i \in 1 .. Len(searchOut.ret) :
          PairBonus(searchOut.ret[i].content, SearchKeywords) > 0
    /\ \E i \in 1 .. Len(searchOut.ret) :
          PairBonus(searchOut.ret[i].content, SearchKeywords \o SearchExpanded)
              > PairBonus(searchOut.ret[i].content, SearchKeywords)

\* the score searchRelevantChunks returned for the fragment at a place of the
\* corpus; a fragment it left out scored 0
ReturnedScore(id) ==
    LET hits == {r \in 1 .. Len(searchOut.ret) : searchOut.ret[r].id = id}
    IN IF hits = {} THEN 0 ELSE searchOut.ret[CHOOSE r \in hits : TRUE].score

LoopWord == <<"l", "o", "o", "p">>
IterationWord == <<"i", "t", "e", "r", "a", "t", "i", "o", "n">>

\* fragment a holds the primary keyword "loop" three times
HoldsLoopThrice(a) ==
    /\ LoopWord \in Range(SearchKeywords)
    /\ MatchCount(toLowerCase(a.content), 1, LoopWord) = 3

\* fragment b holds no primary keyword and, of the expanded ones, only
\* "iteration", once
HoldsIterationOnly(b) ==
    /\ \A k \in Range(SearchKeywords) : MatchCount(toLowerCase(b.content), 1, k) = 0
    /\ \A k \in Range(SearchExpanded) :
          MatchCount(toLowerCase(b.content), 1, k) = (IF k = IterationWord THEN 1 ELSE 0)

\* fragment b earns no bonus: no semantic marker and no proximity of keywords
NoBonus(b) ==
    /\ detectSemanticMarkers(toLowerCase(b.content), SearchKeywords) = 0
    /\ calculateProximityBonus(toLowerCase(b.content), SearchKeywords) = 0

\* C20 as stated: a fragment with "loop" three times scores at least as much
\* as a fragment with only "iteration" once, whatever else the two hold.
C20_PrimaryDominates ==
    searchOut.called =>
        \A a, b \in Range(searchIn.allChunks) :
            (HoldsLoopThrice(a) /\ HoldsIterationOnly(b))
                => ReturnedScore(a.id) >= ReturnedScore(b.id)

\* C20, amended: a fragment with "loop" three times scores at least as much
\* as a fragment with only "iteration" once that earns no semantic-marker
\* and no proximity bonus.
C20_PrimaryDominatesPlainText ==
    searchOut.called =>
        \A a, b \in Range(searchIn.allChunks) :
            (HoldsLoopThrice(a) /\ HoldsIterationOnly(b) /\ NoBonus(b))
                => ReturnedScore(a.id) >= ReturnedScore(b.id)

\* C20 witness: both fragments were returned, B is plain text that opens a
\* definition (so its 18 points are multiplied by 1.3) and A stands in a
\* corpus where three of four fragments hold "loop".
C20_Witness ==
    /\ searchOut.called
    /\ Len(searchIn.allChunks) = 4
    /\ \E a, b \in Range(searchIn.allChunks) :
          /\ HoldsLoopThrice(a) /\ HoldsIterationOnly(b) /\ NoBonus(b)
          /\ isContextRich(toLowerCase(b.content))
          /\ ReturnedScore(b.id) = 18 * 13 * ScoreScale
          /\ ReturnedScore(a.id) > ReturnedScore(b.id)

(***************************************************************************)
(* Claims about the chat route.                                            *)
(***************************************************************************)
\* the last request named a course, carried a message, found its course and
\* got a reply from the response generator
ChatServed ==
    /\ chatIn # NoChatRequest
    /\ chatIn.message # <<>>
    /\ ~chatIn.o.courseError
    /\ ~chatIn.o.tutorError

\* table pdf_chunks holds no fragment of the course of the last request
CourseCorpusEmpty ==
    \A i \in 1 .. Len(pdf_chunks) : pdf_chunks[i].course_id # chatIn.course_id

\* C17: a request whose corpus query failed, or whose course has no
\* fragment, is answered 200 with the tutor's reply and an empty
\* relevant_materials list whenever the course lookup and the response
\* generator did not fail.
C17_RetrievalDegrades ==
    (ChatServed /\ (chatIn.o.fetchError \/ CourseCorpusEmpty))
        => /\ chatOut.status = 200
           /\ chatOut.response = tutorResponse
           /\ chatOut.relevant_materials = <<>>

\* C17 witness: the course has fragments that match the question "loop", the
\* query for them failed, and the answer is 200 with no materials.
C17_Witness ==
    /\ ChatServed
    /\ chatIn.o.fetchError
    /\ chatIn.message = <<"l", "o", "o", "p">>
    /\ searchRelevantChunks(chatIn.message,
                            getCoursePDFChunks(chatIn.course_id, FALSE).data, 8) # <<>>
    /\ chatOut.status = 200
    /\ chatOut.relevant_materials = <<>>

\* the questions table conversations holds
StoredQuestions == {i \in 1 .. Len(conversations) : conversations[i].role = "user"}

\* C18: table analytics_events holds one event for each question the chat
\* route answered: as many events as stored questions, and at least one once
\* a question has been answered.
C18_OneEventPerQuestion ==
    /\ Len(analytics_events) = Cardinality(StoredQuestions)
    /\ chatOut.status = 200 => Len(analytics_events) >= 1

\* C27: under any interleaving of the steps of an upload and of a delete of
\* the same document, every fragment stored in the corpus refers to a
\* document record that still exists
C27_NoOrphanFragments ==
    \A i \in 1 .. Len(pdf_chunks) :
        \E p \in 1 .. Len(pdfs) : pdfs[p].id = pdf_chunks[i].pdf_id

\* the delete removed the record between the upload's insert of the record
\* and its insert of the fragments: the insert was refused and logged, the
\* upload was answered 201, and no fragment of the document is stored
C27_Witness ==
    /\ inflight.upload.pc = "done" /\ inflight.upload.refused
    /\ inflight.delete.pc = "done" /\ inflight.delete.deleted
    /\ inflight.delete.id = inflight.upload.id
    /\ response = [status |-> 201, pdf |-> inflight.upload.id]
    /\ ChunksOf(inflight.upload.id) = <<>>

====
